---- MODULE Spec2Model ----
(***************************************************************************)
(* Model of the Schema.org JSON-LD validation engine of                    *)
(* src/services/schemaValidationService.ts (class SchemaValidationService) *)
(* together with the JavaScript value semantics the validator relies on    *)
(* (JSON.parse, truthiness, typeof, property access, string coercion).     *)
(*                                                                         *)
(* Strings are TLA+ strings, handled character by character through        *)
(* Len, SubSeq and \o.  Numbers are integers.                              *)
(***************************************************************************)
EXTENDS Integers, Sequences, FiniteSets, TLC

(***************************************************************************)
(* JavaScript values as they come out of JSON.parse.                       *)
(***************************************************************************)
Undefined == [t |-> "undefined"]
JNull == [t |-> "null"]
JBool(b) == [t |-> "boolean", b |-> b]
JNum(n) == [t |-> "number", n |-> n]
JStr(s) == [t |-> "string", s |-> s]
JArr(e) == [t |-> "array", e |-> e]
JObj(m) == [t |-> "object", m |-> m]
Member(k, v) == [k |-> k, v |-> v]

\* typeof v
TypeOf(v) ==
  CASE v.t = "undefined" -> "undefined"
    [] v.t = "boolean" -> "boolean"
    [] v.t = "number" -> "number"
    [] v.t = "string" -> "string"
    [] OTHER -> "object"

\* ToBoolean(v): the test behind if (v), !v, && and ||
Truthy(v) ==
  CASE v.t = "undefined" -> FALSE
    [] v.t = "null" -> FALSE
    [] v.t = "boolean" -> v.b
    [] v.t = "number" -> v.n # 0
    [] v.t = "string" -> v.s # ""
    [] OTHER -> TRUE

\* a property access on null or undefined raises a TypeError
Nullish(v) == v.t \in {"undefined", "null"}

\* s.substring(i-1, j), clipped to the string
Sub(s, i, j) == SubSeq(s, i, IF j <= Len(s) THEN j ELSE Len(s))

Ch(s, i) == IF i >= 1 /\ i <= Len(s) THEN SubSeq(s, i, i) ELSE ""

Digits == {"0", "1", "2", "3", "4", "5", "6", "7", "8", "9"}
DigitVal(c) == CHOOSE d \in 0..9 : ToString(d) = c

RECURSIVE DecimalValue(_, _)
DecimalValue(s, acc) ==
  IF s = "" THEN acc ELSE DecimalValue(Tail(s), 10 * acc + DigitVal(Head(s)))

IsDigits(s) == s # "" /\ \A i \in 1..Len(s) : Ch(s, i) \in Digits

\* s is the canonical decimal form of an array index ("0", "1", "12", ...)
IsIndex(s) == IsDigits(s) /\ (Len(s) = 1 \/ Ch(s, 1) # "0")

\* obj[key] for a non-nullish obj (own properties and length only)
Get(obj, key) ==
  CASE obj.t = "object" ->
         LET hits == {i \in 1..Len(obj.m) : obj.m[i].k = key}
         IN IF hits = {} THEN Undefined ELSE obj.m[CHOOSE i \in hits : TRUE].v
    [] obj.t = "array" ->
         IF key = "length" THEN JNum(Len(obj.e))
         ELSE IF IsIndex(key) /\ DecimalValue(key, 0) < Len(obj.e)
              THEN obj.e[DecimalValue(key, 0) + 1] ELSE Undefined
    [] obj.t = "string" ->
         IF key = "length" THEN JNum(Len(obj.s))
         ELSE IF IsIndex(key) /\ DecimalValue(key, 0) < Len(obj.s)
              THEN JStr(Ch(obj.s, DecimalValue(key, 0) + 1)) ELSE Undefined
    [] OTHER -> Undefined

\* Object.keys(v): own enumerable keys in insertion (or index) order
ObjectKeys(v) ==
  CASE v.t = "object" -> [i \in 1..Len(v.m) |-> v.m[i].k]
    [] v.t = "array" -> [i \in 1..Len(v.e) |-> ToString(i - 1)]
    [] v.t = "string" -> [i \in 1..Len(v.s) |-> ToString(i - 1)]
    [] OTHER -> <<>>

RECURSIVE JoinStr(_, _)
JoinStr(parts, sep) ==
  IF Len(parts) = 0 THEN ""
  ELSE IF Len(parts) = 1 THEN parts[1]
  ELSE parts[1] \o sep \o JoinStr(Tail(parts), sep)

\* String(v), the coercion applied by RegExp.prototype.test and String()
RECURSIVE ToStr(_)
ToStr(v) ==
  CASE v.t = "undefined" -> "undefined"
    [] v.t = "null" -> "null"
    [] v.t = "boolean" -> IF v.b THEN "true" ELSE "false"
    [] v.t = "number" -> ToString(v.n)
    [] v.t = "string" -> v.s
    [] v.t = "array" ->
         JoinStr([i \in 1..Len(v.e) |->
                    IF Nullish(v.e[i]) THEN "" ELSE ToStr(v.e[i])], ",")
    [] OTHER -> "[object Object]"

(***************************************************************************)
(* JSON.parse.  The grammar is JSON's, restricted to integer numbers and   *)
(* strings without escape sequences.                                       *)
(***************************************************************************)
Whitespace == {" ", "\t", "\n", "\r"}

RECURSIVE SkipWs(_, _)
SkipWs(s, i) == IF Ch(s, i) \in Whitespace THEN SkipWs(s, i + 1) ELSE i

ParseFail == [ok |-> FALSE, v |-> Undefined, i |-> 0]
ParseOk(v, i) == [ok |-> TRUE, v |-> v, i |-> i]

\* the position of the first quote at or after position i, 0 if there is none
QuoteFrom(s, i) ==
  LET quotes == {j \in i..Len(s) : SubSeq(s, j, j) = "\""}
  IN IF quotes = {} THEN 0 ELSE CHOOSE j \in quotes : \A k \in quotes : j <= k

\* the string token that opens at position i and closes at the quote at j
StringToken(s, i, j) ==
  IF j = 0 THEN ParseFail ELSE ParseOk(SubSeq(s, i + 1, j - 1), j + 1)

\* a string token starting at the quote at position i
ParseString(s, i) == StringToken(s, i, QuoteFrom(s, i + 1))

RECURSIVE DigitsEnd(_, _)
DigitsEnd(s, i) == IF Ch(s, i) \in Digits THEN DigitsEnd(s, i + 1) ELSE i

\* a number token starting at position i: -?(0|[1-9][0-9]*)
ParseNumber(s, i) ==
  LET neg == Ch(s, i) = "-"
      b == IF neg THEN i + 1 ELSE i
      e == DigitsEnd(s, b)
      body == SubSeq(s, b, e - 1)
  IN IF e = b \/ (e - b > 1 /\ Ch(s, b) = "0") \/ Ch(s, e) \in {".", "e", "E"}
     THEN ParseFail
     ELSE ParseOk(JNum(IF neg THEN 0 - DecimalValue(body, 0)
                       ELSE DecimalValue(body, 0)), e)

\* obj[k] = v while parsing: a repeated key keeps its place, the last value wins
PutMember(m, k, v) ==
  IF \E i \in 1..Len(m) : m[i].k = k
  THEN [i \in 1..Len(m) |-> IF m[i].k = k THEN Member(k, v) ELSE m[i]]
  ELSE Append(m, Member(k, v))

RECURSIVE ParseValue(_, _)
RECURSIVE ParseElements(_, _, _)
RECURSIVE ParseMembers(_, _, _)

\* the elements of an array, from the first element at i up to the closing ]
ParseElements(s, i, acc) ==
  LET r == ParseValue(s, i)
      j == SkipWs(s, r.i)
  IN IF ~r.ok THEN ParseFail
     ELSE IF Ch(s, j) = "," THEN ParseElements(s, SkipWs(s, j + 1), Append(acc, r.v))
     ELSE IF Ch(s, j) = "]" THEN ParseOk(JArr(Append(acc, r.v)), j + 1)
     ELSE ParseFail

\* the members of an object, from the first key at i up to the closing }
ParseMembers(s, i, acc) ==
  IF Ch(s, i) # "\"" THEN ParseFail
  ELSE LET k == ParseString(s, i)
           c == SkipWs(s, k.i)
           r == ParseValue(s, SkipWs(s, c + 1))
           j == SkipWs(s, r.i)
       IN IF ~k.ok \/ Ch(s, c) # ":" THEN ParseFail
          ELSE IF ~r.ok THEN ParseFail
          ELSE IF Ch(s, j) = ","
               THEN ParseMembers(s, SkipWs(s, j + 1), PutMember(acc, k.v, r.v))
          ELSE IF Ch(s, j) = "}" THEN ParseOk(JObj(PutMember(acc, k.v, r.v)), j + 1)
          ELSE ParseFail

ParseValue(s, i) ==
  LET c == Ch(s, i)
  IN CASE c = "{" ->
            LET j == SkipWs(s, i + 1)
            IN IF Ch(s, j) = "}" THEN ParseOk(JObj(<<>>), j + 1)
               ELSE ParseMembers(s, j, <<>>)
       [] c = "[" ->
            LET j == SkipWs(s, i + 1)
            IN IF Ch(s, j) = "]" THEN ParseOk(JArr(<<>>), j + 1)
               ELSE ParseElements(s, j, <<>>)
       [] c = "\"" ->
            LET r == ParseString(s, i)
            IN IF r.ok THEN ParseOk(JStr(r.v), r.i) ELSE ParseFail
       [] c = "-" \/ c \in Digits -> ParseNumber(s, i)
       [] c = "t" /\ Sub(s, i, i + 3) = "true" -> ParseOk(JBool(TRUE), i + 4)
       [] c = "f" /\ Sub(s, i, i + 4) = "false" -> ParseOk(JBool(FALSE), i + 5)
       [] c = "n" /\ Sub(s, i, i + 3) = "null" -> ParseOk(JNull, i + 4)
       [] OTHER -> ParseFail

\* JSON.parse(text): ok = FALSE stands for the SyntaxError it raises
JSONparse(text) ==
  LET r == ParseValue(text, SkipWs(text, 1))
  IN IF r.ok /\ SkipWs(text, r.i) = Len(text) + 1
     THEN [ok |-> TRUE, v |-> r.v]
     ELSE [ok |-> FALSE, v |-> Undefined]

\* JSON.stringify(v), used to write the input texts
RECURSIVE Stringify(_)
Stringify(v) ==
  CASE v.t = "null" -> "null"
    [] v.t = "boolean" -> IF v.b THEN "true" ELSE "false"
    [] v.t = "number" -> ToString(v.n)
    [] v.t = "string" -> "\"" \o v.s \o "\""
    [] v.t = "array" ->
         "[" \o JoinStr([i \in 1..Len(v.e) |-> Stringify(v.e[i])], ",") \o "]"
    [] v.t = "object" ->
         "{" \o JoinStr([i \in 1..Len(v.m) |->
                  "\"" \o v.m[i].k \o "\":" \o Stringify(v.m[i].v)], ",") \o "}"

(***************************************************************************)
(* String helpers behind the regular expressions and string methods.       *)
(***************************************************************************)
UpperLetters == {"A", "B", "C", "D", "E", "F", "G", "H", "I", "J", "K", "L", "M",
                 "N", "O", "P", "Q", "R", "S", "T", "U", "V", "W", "X", "Y", "Z"}
LowerLetters == {"a", "b", "c", "d", "e", "f", "g", "h", "i", "j", "k", "l", "m",
                 "n", "o", "p", "q", "r", "s", "t", "u", "v", "w", "x", "y", "z"}
LowerOf == [c \in UpperLetters |->
  CASE c = "A" -> "a" [] c = "B" -> "b" [] c = "C" -> "c" [] c = "D" -> "d"
    [] c = "E" -> "e" [] c = "F" -> "f" [] c = "G" -> "g" [] c = "H" -> "h"
    [] c = "I" -> "i" [] c = "J" -> "j" [] c = "K" -> "k" [] c = "L" -> "l"
    [] c = "M" -> "m" [] c = "N" -> "n" [] c = "O" -> "o" [] c = "P" -> "p"
    [] c = "Q" -> "q" [] c = "R" -> "r" [] c = "S" -> "s" [] c = "T" -> "t"
    [] c = "U" -> "u" [] c = "V" -> "v" [] c = "W" -> "w" [] c = "X" -> "x"
    [] c = "Y" -> "y" [] c = "Z" -> "z"]

\* the class \s and the line terminators that . does not match
RegexSpace == {" ", "\t", "\n", "\r", "\f"}
LineTerminators == {"\n", "\r"}

\* s.toLowerCase()
RECURSIVE ToLowerCase(_)
ToLowerCase(s) ==
  IF Len(s) = 0 THEN ""
  ELSE IF Len(s) = 1 THEN (IF s \in UpperLetters THEN LowerOf[s] ELSE s)
  ELSE ToLowerCase(SubSeq(s, 1, Len(s) \div 2))
         \o ToLowerCase(SubSeq(s, Len(s) \div 2 + 1, Len(s)))

StartsWith(s, p) == Len(s) >= Len(p) /\ SubSeq(s, 1, Len(p)) = p

\* s.includes(term)
Includes(s, term) ==
  \E i \in 1..(Len(s) - Len(term) + 1) : SubSeq(s, i, i + Len(term) - 1) = term

\* s.trim() === ''
TrimIsEmpty(s) == \A i \in 1..Len(s) : Ch(s, i) \in RegexSpace

\* s matches a template in which d stands for \d and any other character
\* for itself, anchored at both ends
MatchesTemplate(s, tpl) ==
  /\ Len(s) = Len(tpl)
  /\ \A i \in 1..Len(tpl) :
       IF Ch(tpl, i) = "d" THEN Ch(s, i) \in Digits ELSE Ch(s, i) = Ch(tpl, i)

(***************************************************************************)
(* VALIDATION_PATTERNS: pattern.test(String(value)) for each pattern.      *)
(***************************************************************************)
\* /^https?:\/\/.+/
PatternUrl(s) ==
  \/ StartsWith(s, "http://") /\ Len(s) > 7 /\ Ch(s, 8) \notin LineTerminators
  \/ StartsWith(s, "https://") /\ Len(s) > 8 /\ Ch(s, 9) \notin LineTerminators

\* /^[^\s@]+@[^\s@]+\.[^\s@]+$/
PatternEmail(s) ==
  LET ats == {i \in 1..Len(s) : Ch(s, i) = "@"}
  IN /\ Cardinality(ats) = 1
     /\ \A i \in 1..Len(s) : Ch(s, i) \notin RegexSpace
     /\ LET a == CHOOSE i \in ats : TRUE
        IN /\ a > 1
           /\ \E p \in (a + 2)..(Len(s) - 1) : Ch(s, p) = "."

\* /^\d{4}-\d{2}-\d{2}(T\d{2}:\d{2}:\d{2}(\.\d{3})?Z?)?$/
PatternDate(s) ==
  \/ MatchesTemplate(s, "dddd-dd-dd")
  \/ MatchesTemplate(s, "dddd-dd-ddTdd:dd:dd")
  \/ MatchesTemplate(s, "dddd-dd-ddTdd:dd:ddZ")
  \/ MatchesTemplate(s, "dddd-dd-ddTdd:dd:dd.ddd")
  \/ MatchesTemplate(s, "dddd-dd-ddTdd:dd:dd.dddZ")

\* /^[\+]?[1-9][\d]{0,15}$/
PatternPhone(s) ==
  LET body == IF StartsWith(s, "+") THEN SubSeq(s, 2, Len(s)) ELSE s
  IN /\ Len(body) >= 1 /\ Len(body) <= 16
     /\ IsDigits(body)
     /\ Ch(body, 1) # "0"

ImageExtensions == {"jpg", "jpeg", "png", "gif", "webp", "svg"}

\* /\.(jpg|jpeg|png|gif|webp|svg)(\?.*)?$/i
PatternImageUrl(s) ==
  LET low == ToLowerCase(s)
  IN \E p \in 1..Len(s) : \E ext \in ImageExtensions :
       /\ Ch(low, p) = "."
       /\ SubSeq(low, p + 1, IF p + Len(ext) <= Len(low) THEN p + Len(ext) ELSE Len(low)) = ext
       /\ LET q == p + Len(ext) + 1
          IN \/ q = Len(s) + 1
             \/ /\ Ch(s, q) = "?"
                /\ \A r \in (q + 1)..Len(s) : Ch(s, r) \notin LineTerminators

\* /^https?:\/\/schema\.org\/?$/
PatternSchemaContext(s) ==
  s \in {"http://schema.org", "https://schema.org",
         "http://schema.org/", "https://schema.org/"}

\* /^[A-Z0-9\s\-]{3,10}$/i
PatternPostalCode(s) ==
  /\ Len(s) >= 3 /\ Len(s) <= 10
  /\ \A i \in 1..Len(s) :
       Ch(s, i) \in UpperLetters \cup LowerLetters \cup Digits \cup RegexSpace \cup {"-"}

\* /^\d+(\.\d{1,2})?$/
PatternPrice(s) ==
  LET dots == {i \in 1..Len(s) : Ch(s, i) = "."}
  IN \/ IsDigits(s)
     \/ /\ Cardinality(dots) = 1
        /\ LET p == CHOOSE i \in dots : TRUE
           IN /\ IsDigits(SubSeq(s, 1, p - 1))
              /\ IsDigits(SubSeq(s, p + 1, Len(s)))
              /\ Len(s) - p <= 2

\* /^[A-Z]{3}$/
PatternCurrency(s) == Len(s) = 3 /\ \A i \in 1..3 : Ch(s, i) \in UpperLetters

(***************************************************************************)
(* Numeric coercion for the relational operators ( <, > with a number).    *)
(***************************************************************************)
NaN == [nan |-> TRUE, n |-> 0]
Number(n) == [nan |-> FALSE, n |-> n]

\* the leading and trailing white space of s removed
TrimBounds(s) ==
  LET keep == {i \in 1..Len(s) : Ch(s, i) \notin RegexSpace}
  IN IF keep = {} THEN ""
     ELSE SubSeq(s, CHOOSE i \in keep : \A j \in keep : i <= j,
                    CHOOSE i \in keep : \A j \in keep : i >= j)

\* Number(s) for a string: white space is trimmed, "" is 0, an integer
\* literal is its value, anything else is NaN
StringToNumber(s) ==
  LET body == TrimBounds(s)
      signed == StartsWith(body, "-") \/ StartsWith(body, "+")
      digits == IF signed THEN SubSeq(body, 2, Len(body)) ELSE body
  IN IF body = "" THEN Number(0)
     ELSE IF ~IsDigits(digits) THEN NaN
     ELSE IF StartsWith(body, "-") THEN Number(0 - DecimalValue(digits, 0))
     ELSE Number(DecimalValue(digits, 0))

\* ToNumber(v)
ToNumber(v) ==
  CASE v.t = "undefined" -> NaN
    [] v.t = "null" -> Number(0)
    [] v.t = "boolean" -> Number(IF v.b THEN 1 ELSE 0)
    [] v.t = "number" -> Number(v.n)
    [] v.t = "string" -> StringToNumber(v.s)
    [] OTHER -> StringToNumber(ToStr(v))

\* v < n and v > n for a number literal n
NumberLess(x, n) == ~x.nan /\ x.n < n
NumberGreater(x, n) == ~x.nan /\ x.n > n
LessThan(v, n) == NumberLess(ToNumber(v), n)
GreaterThan(v, n) == NumberGreater(ToNumber(v), n)

\* a === b; two parsed objects or arrays are never the same object
StrictEquals(a, b) ==
  /\ a.t = b.t
  /\ a.t \notin {"object", "array"}
  /\ a = b

(***************************************************************************)
(* The rule table and the findings.                                        *)
(***************************************************************************)
VARIABLES
  SCHEMA_REQUIREMENTS,  \* the requirement table, a module-level object
  heap,                 \* the arrays allocated by the calls: address -> findings
  returned,             \* the calls made so far, with the results they returned
  displayed,            \* what the display helpers gave for the results shown
  App,                  \* the state and the refs of the App component
  requests              \* the generateSchemaForUrl requests App has started

vars == <<SCHEMA_REQUIREMENTS, heap, returned, displayed, App, requests>>

\* the object literal that initialises SCHEMA_REQUIREMENTS
SchemaRequirementsLiteral ==
  [Article |-> [required |-> <<"@context", "@type", "headline">>,
                recommended |-> <<"author", "datePublished", "dateModified",
                                  "publisher", "description", "image">>],
   Product |-> [required |-> <<"@context", "@type", "name">>,
                recommended |-> <<"description", "image", "brand", "offers",
                                  "aggregateRating", "review">>],
   Organization |-> [required |-> <<"@context", "@type", "name">>,
                     recommended |-> <<"url", "logo", "description", "address",
                                       "contactPoint">>],
   Person |-> [required |-> <<"@context", "@type", "name">>,
               recommended |-> <<"url", "image", "description", "jobTitle",
                                 "worksFor">>],
   Event |-> [required |-> <<"@context", "@type", "name", "startDate">>,
              recommended |-> <<"endDate", "location", "description",
                                "organizer", "offers">>],
   BreadcrumbList |-> [required |-> <<"@context", "@type", "itemListElement">>,
                       recommended |-> <<"numberOfItems">>],
   FAQPage |-> [required |-> <<"@context", "@type", "mainEntity">>,
                recommended |-> <<"name", "description">>],
   HowTo |-> [required |-> <<"@context", "@type", "name", "step">>,
              recommended |-> <<"description", "image", "totalTime", "supply",
                                "tool">>],
   Review |-> [required |-> <<"@context", "@type", "reviewRating", "author">>,
               recommended |-> <<"itemReviewed", "reviewBody", "datePublished">>],
   LocalBusiness |-> [required |-> <<"@context", "@type", "name", "address">>,
                      recommended |-> <<"telephone", "url", "openingHours",
                                        "priceRange">>],
   WebSite |-> [required |-> <<"@context", "@type", "name", "url">>,
                recommended |-> <<"description", "potentialAction">>]]

\* property names every object inherits from Object.prototype: a lookup of
\* one of them in the table yields a value that is no table entry
PrototypeKeys ==
  {"constructor", "toString", "toLocaleString", "valueOf", "hasOwnProperty",
   "isPrototypeOf", "propertyIsEnumerable", "__proto__", "__defineGetter__",
   "__defineSetter__", "__lookupGetter__", "__lookupSetter__"}

\* a ValidationError without and with a path
Finding(type, message, suggestion) ==
  [type |-> type, message |-> message, suggestion |-> suggestion]
FindingAt(type, message, path, suggestion) ==
  [type |-> type, message |-> message, path |-> path, suggestion |-> suggestion]

\* the findings a piece of code pushes, and the exception it raises if any
\* ("none", "SyntaxError" or "TypeError")
NoFindings == [errors |-> <<>>, warnings |-> <<>>, info |-> <<>>, thrown |-> "none"]
Raised(acc) == acc.thrown # "none"
PushError(acc, f) == [acc EXCEPT !.errors = Append(@, f)]
PushWarning(acc, f) == [acc EXCEPT !.warnings = Append(@, f)]
PushInfo(acc, f) == [acc EXCEPT !.info = Append(@, f)]
\* an exception ends the try block: once one is raised, nothing that follows
\* in the block throws or pushes
Throw(acc, kind) == IF Raised(acc) THEN acc ELSE [acc EXCEPT !.thrown = kind]

\* if (condition) errors.push(f), and the same for warnings and info
ErrorIf(condition, acc, f) ==
  IF Raised(acc) THEN acc ELSE IF condition THEN PushError(acc, f) ELSE acc
WarningIf(condition, acc, f) ==
  IF Raised(acc) THEN acc ELSE IF condition THEN PushWarning(acc, f) ELSE acc
InfoIf(condition, acc, f) ==
  IF Raised(acc) THEN acc ELSE IF condition THEN PushInfo(acc, f) ELSE acc

(***************************************************************************)
(* validateJsonLdStructure                                                 *)
(***************************************************************************)
\* a test of @context that only recognises a property left out
ContextAbsent(schema) == Get(schema, "@context") = Undefined

\* if (!schema['@context'])
ContextMissing(schema) == ~Truthy(Get(schema, "@context"))

\* the @context check of validateJsonLdStructure
ContextCheck(schema, acc) ==
  IF ContextMissing(schema)
  THEN ErrorIf(TRUE, acc, Finding("error", "Missing @context property",
         "Add \"@context\": \"https://schema.org\" to your schema"))
  ELSE WarningIf(~StrictEquals(Get(schema, "@context"), JStr("https://schema.org")), acc,
         Finding("warning", "Non-standard @context value",
           "Consider using \"https://schema.org\" for better compatibility"))

validateJsonLdStructure(schema, acc) ==
  IF Nullish(schema) THEN Throw(acc, "TypeError")
  ELSE
  LET a1 == ContextCheck(schema, acc)
      a2 == ErrorIf(~Truthy(Get(schema, "@type")), a1,
              Finding("error", "Missing @type property",
                "Add \"@type\" property to specify the schema type"))
  IN WarningIf(~Truthy(Get(schema, "@id")), a2,
       Finding("warning", "Missing @id property",
         "Consider adding \"@id\" for better entity identification"))

(***************************************************************************)
(* The per-type validators.                                                *)
(***************************************************************************)
DateSuggestion ==
  "Use strict ISO 8601 format: \"YYYY-MM-DD\" (e.g., \"2024-01-15\") or \"YYYY-MM-DDTHH:mm:ssZ\" (e.g., \"2024-01-15T14:30:00Z\"). Do not use formats like \"01/15/2024\" or \"January 15, 2024\""

\* a date check whose pattern is not anchored: /\d{4}-\d{2}-\d{2}/
DateCheckUnanchored(schema, prop, acc) ==
  ErrorIf(/\ Truthy(Get(schema, prop))
          /\ ~\E i \in 1..Len(ToStr(Get(schema, prop))) :
                MatchesTemplate(Sub(ToStr(Get(schema, prop)), i, i + 9), "dddd-dd-dd"),
          acc,
          Finding("error", "Invalid " \o prop \o " format", DateSuggestion))

\* if (schema[prop] && !VALIDATION_PATTERNS.date.test(schema[prop])) errors.push(...)
DateCheck(schema, prop, acc) ==
  ErrorIf(Truthy(Get(schema, prop)) /\ ~PatternDate(ToStr(Get(schema, prop))), acc,
          Finding("error", "Invalid " \o prop \o " format", DateSuggestion))

validateArticle(schema, acc) ==
  LET a1 == WarningIf(/\ Truthy(Get(schema, "headline"))
                      /\ GreaterThan(Get(Get(schema, "headline"), "length"), 110),
                      acc,
                      Finding("warning", "Headline is too long",
                        "Keep headlines under 110 characters for better SEO"))
      a2 == WarningIf(/\ Truthy(Get(schema, "author"))
                      /\ TypeOf(Get(schema, "author")) = "string",
                      a1,
                      Finding("warning", "Author should be an object with name property",
                        "Use {\"@type\": \"Person\", \"name\": \"Author Name\"} format"))
      a3 == DateCheck(schema, "datePublished", a2)
  IN DateCheck(schema, "dateModified", a3)

validateProduct(schema, acc) ==
  LET a1 == WarningIf(/\ Truthy(Get(schema, "offers"))
                      /\ ~Truthy(Get(Get(schema, "offers"), "price")),
                      acc,
                      Finding("warning", "Product offers should include price",
                        "Add \"price\" property to offers for better rich snippets"))
  IN ErrorIf(/\ Truthy(Get(schema, "image"))
             /\ TypeOf(Get(schema, "image")) = "string"
             /\ ~PatternUrl(Get(schema, "image").s),
             a1,
             Finding("error", "Invalid image URL format",
               "Use a valid HTTP/HTTPS URL for the image"))

validateOrganization(schema, acc) ==
  LET a1 == ErrorIf(/\ Truthy(Get(schema, "logo"))
                    /\ TypeOf(Get(schema, "logo")) = "string"
                    /\ ~PatternUrl(Get(schema, "logo").s),
                    acc,
                    Finding("error", "Invalid logo URL format",
                      "Use a valid HTTP/HTTPS URL for the logo"))
  IN WarningIf(/\ Truthy(Get(schema, "contactPoint"))
               /\ Truthy(Get(Get(schema, "contactPoint"), "telephone"))
               /\ ~PatternPhone(ToStr(Get(Get(schema, "contactPoint"), "telephone"))),
               a1,
               Finding("warning", "Invalid phone number format",
                 "Use international format: +1234567890"))

validateEvent(schema, acc) ==
  DateCheck(schema, "endDate", DateCheck(schema, "startDate", acc))

\* schema.itemListElement.forEach(...) from element idx on
RECURSIVE BreadcrumbItems(_, _, _)
BreadcrumbItems(items, idx, acc) ==
  IF idx > Len(items) THEN acc
  ELSE IF Nullish(items[idx]) THEN Throw(acc, "TypeError")
  ELSE BreadcrumbItems(items, idx + 1,
         ErrorIf(~Truthy(Get(items[idx], "name")), acc,
           FindingAt("error",
             "Breadcrumb item " \o ToString(idx) \o " missing name",
             "itemListElement[" \o ToString(idx - 1) \o "].name",
             "Add \"name\" property to each breadcrumb item")))

validateBreadcrumbList(schema, acc) ==
  IF Truthy(Get(schema, "itemListElement")) /\ Get(schema, "itemListElement").t = "array"
  THEN BreadcrumbItems(Get(schema, "itemListElement").e, 1, acc)
  ELSE acc

\* schema.mainEntity.forEach(...) from element idx on
RECURSIVE FAQItems(_, _, _)
FAQItems(items, idx, acc) ==
  IF idx > Len(items) THEN acc
  ELSE IF Nullish(items[idx]) THEN Throw(acc, "TypeError")
  ELSE
  LET a1 == ErrorIf(~Truthy(Get(items[idx], "question")), acc,
                    FindingAt("error",
                      "FAQ " \o ToString(idx) \o " missing question",
                      "mainEntity[" \o ToString(idx - 1) \o "].question",
                      "Add \"question\" property to each FAQ item"))
      a2 == ErrorIf(~Truthy(Get(items[idx], "answer")), a1,
                    FindingAt("error",
                      "FAQ " \o ToString(idx) \o " missing answer",
                      "mainEntity[" \o ToString(idx - 1) \o "].answer",
                      "Add \"answer\" property to each FAQ item"))
  IN FAQItems(items, idx + 1, a2)

validateFAQPage(schema, acc) ==
  IF Truthy(Get(schema, "mainEntity")) /\ Get(schema, "mainEntity").t = "array"
  THEN FAQItems(Get(schema, "mainEntity").e, 1, acc)
  ELSE acc

\* schema.step.forEach(...) from element idx on
RECURSIVE HowToSteps(_, _, _)
HowToSteps(items, idx, acc) ==
  IF idx > Len(items) THEN acc
  ELSE IF Nullish(items[idx]) THEN Throw(acc, "TypeError")
  ELSE HowToSteps(items, idx + 1,
         ErrorIf(~Truthy(Get(items[idx], "name")), acc,
           FindingAt("error",
             "HowTo step " \o ToString(idx) \o " missing name",
             "step[" \o ToString(idx - 1) \o "].name",
             "Add \"name\" property to each step")))

validateHowTo(schema, acc) ==
  IF Truthy(Get(schema, "step")) /\ Get(schema, "step").t = "array"
  THEN HowToSteps(Get(schema, "step").e, 1, acc)
  ELSE acc

validateReview(schema, acc) ==
  ErrorIf(/\ Truthy(Get(schema, "reviewRating"))
          /\ \/ ~Truthy(Get(Get(schema, "reviewRating"), "ratingValue"))
             \/ ~Truthy(Get(Get(schema, "reviewRating"), "bestRating")),
          acc,
          Finding("error", "Review rating missing required properties",
            "Add \"ratingValue\" and \"bestRating\" to reviewRating"))

validateLocalBusiness(schema, acc) ==
  WarningIf(/\ Truthy(Get(schema, "address"))
            /\ \/ ~Truthy(Get(Get(schema, "address"), "streetAddress"))
               \/ ~Truthy(Get(Get(schema, "address"), "addressLocality")),
            acc,
            Finding("warning", "Address missing recommended properties",
              "Add \"streetAddress\" and \"addressLocality\" to address"))

\* switch (schemaType): the cases compare with ===
validateSpecificTypes(schema, schemaType, acc) ==
  IF schemaType.t # "string" THEN acc
  ELSE CASE schemaType.s = "Article" -> validateArticle(schema, acc)
         [] schemaType.s = "Product" -> validateProduct(schema, acc)
         [] schemaType.s = "Organization" -> validateOrganization(schema, acc)
         [] schemaType.s = "Event" -> validateEvent(schema, acc)
         [] schemaType.s = "BreadcrumbList" -> validateBreadcrumbList(schema, acc)
         [] schemaType.s = "FAQPage" -> validateFAQPage(schema, acc)
         [] schemaType.s = "HowTo" -> validateHowTo(schema, acc)
         [] schemaType.s = "Review" -> validateReview(schema, acc)
         [] schemaType.s = "LocalBusiness" -> validateLocalBusiness(schema, acc)
         [] OTHER -> acc

(***************************************************************************)
(* validateSchemaOrgStructure                                              *)
(***************************************************************************)
\* SCHEMA_REQUIREMENTS[key]: an entry of the table, a value inherited from
\* Object.prototype, or undefined
TableLookup(key) ==
  IF key \in DOMAIN SCHEMA_REQUIREMENTS
  THEN [kind |-> "entry", name |-> key, entry |-> SCHEMA_REQUIREMENTS[key]]
  ELSE IF key \in PrototypeKeys THEN [kind |-> "inherited"]
  ELSE [kind |-> "undefined"]

\* first || second for two lookups of the table
OrElse(first, second) == IF first.kind # "undefined" THEN first ELSE second

\* a lookup by the document's own type only, without the fallback
ResolveRequirementsOwnOnly(schemaType, expectedType) == TableLookup(ToStr(schemaType))

\* SCHEMA_REQUIREMENTS[schemaType] || SCHEMA_REQUIREMENTS[expectedType]
ResolveRequirements(schemaType, expectedType) ==
  OrElse(TableLookup(ToStr(schemaType)), TableLookup(expectedType))

\* a test that only recognises a property left out
PropertyAbsent(schema, prop) == Get(schema, prop) = Undefined

\* !schema[prop]
PropertyMissing(schema, prop) == ~Truthy(Get(schema, prop))

\* requirements.required.forEach(...) from property idx on
RECURSIVE RequiredProperties(_, _, _, _)
RequiredProperties(schema, props, idx, acc) ==
  IF idx > Len(props) THEN acc
  ELSE RequiredProperties(schema, props, idx + 1,
         ErrorIf(PropertyMissing(schema, props[idx]), acc,
           FindingAt("error",
             "Missing required property: " \o props[idx], props[idx],
             "Add \"" \o props[idx] \o "\" property to your schema")))

\* a loop over the recommended properties that stops before the last one
RECURSIVE RecommendedPropertiesButLast(_, _, _, _)
RecommendedPropertiesButLast(schema, props, idx, acc) ==
  IF idx >= Len(props) THEN acc
  ELSE RecommendedPropertiesButLast(schema, props, idx + 1,
         WarningIf(PropertyMissing(schema, props[idx]), acc,
           FindingAt("warning",
             "Missing recommended property: " \o props[idx], props[idx],
             "Consider adding \"" \o props[idx] \o "\" for better SEO")))

\* requirements.recommended.forEach(...) from property idx on
RECURSIVE RecommendedProperties(_, _, _, _)
RecommendedProperties(schema, props, idx, acc) ==
  IF idx > Len(props) THEN acc
  ELSE RecommendedProperties(schema, props, idx + 1,
         WarningIf(PropertyMissing(schema, props[idx]), acc,
           FindingAt("warning",
             "Missing recommended property: " \o props[idx], props[idx],
             "Consider adding \"" \o props[idx] \o "\" for better SEO")))

\* a mismatch test without the guard on schemaType
TypeMismatchUnguarded(schemaType, expectedType, acc) ==
  WarningIf(~StrictEquals(schemaType, JStr(expectedType)), acc,
    Finding("warning",
      "Schema type mismatch: expected \"" \o expectedType
        \o "\", got \"" \o ToStr(schemaType) \o "\"",
      "Ensure the @type matches the intended schema type"))

\* if (schemaType && schemaType !== expectedType) warnings.push(...)
TypeMismatch(schemaType, expectedType, acc) ==
  WarningIf(Truthy(schemaType) /\ ~StrictEquals(schemaType, JStr(expectedType)), acc,
    Finding("warning",
      "Schema type mismatch: expected \"" \o expectedType
        \o "\", got \"" \o ToStr(schemaType) \o "\"",
      "Ensure the @type matches the intended schema type"))

\* if (requirements) { required.forEach(...); recommended.forEach(...) }: a
\* value inherited from Object.prototype is truthy and has no required list
RequirementChecks(schema, requirements, acc) ==
  CASE requirements.kind = "undefined" -> acc
    [] requirements.kind = "inherited" -> Throw(acc, "TypeError")
    [] OTHER ->
         RecommendedProperties(schema, requirements.entry.recommended, 1,
           RequiredProperties(schema, requirements.entry.required, 1, acc))

\* the body of validateSchemaOrgStructure, schemaType being schema['@type']
StructureOfType(schema, schemaType, expectedType, acc) ==
  validateSpecificTypes(schema, schemaType,
    RequirementChecks(schema, ResolveRequirements(schemaType, expectedType),
      TypeMismatch(schemaType, expectedType, acc)))

validateSchemaOrgStructure(schema, expectedType, acc) ==
  IF Raised(acc) THEN acc
  ELSE StructureOfType(schema, Get(schema, "@type"), expectedType, acc)

(***************************************************************************)
(* validateDataTypes                                                       *)
(***************************************************************************)
urlProperties == <<"url", "image", "logo", "sameAs", "mainEntityOfPage", "item">>
imageProperties == <<"image", "logo", "photo">>
AvailabilityValues == {"InStock", "OutOfStock", "PreOrder", "SoldOut", "Discontinued"}

\* urlProperties.forEach(...) from property idx on
RECURSIVE UrlProperties(_, _, _)
UrlProperties(schema, idx, acc) ==
  IF idx > Len(urlProperties) THEN acc
  ELSE UrlProperties(schema, idx + 1,
         ErrorIf(/\ Truthy(Get(schema, urlProperties[idx]))
                 /\ TypeOf(Get(schema, urlProperties[idx])) = "string"
                 /\ ~PatternUrl(Get(schema, urlProperties[idx]).s),
                 acc,
                 FindingAt("error", "Invalid URL format for " \o urlProperties[idx],
                   urlProperties[idx], "Use a valid HTTP/HTTPS URL")))

\* imageProperties.forEach(...) from property idx on
RECURSIVE ImageProperties(_, _, _)
ImageProperties(schema, idx, acc) ==
  IF idx > Len(imageProperties) THEN acc
  ELSE ImageProperties(schema, idx + 1,
         WarningIf(/\ Truthy(Get(schema, imageProperties[idx]))
                   /\ TypeOf(Get(schema, imageProperties[idx])) = "string"
                   /\ ~PatternImageUrl(Get(schema, imageProperties[idx]).s),
                   acc,
                   FindingAt("warning",
                     "Image URL may not be a valid image format for "
                       \o imageProperties[idx],
                     imageProperties[idx],
                     "Use JPG, PNG, GIF, WebP, or SVG image formats")))

\* the three checks of one offer; at is `offers[${index}]`
OfferChecks(offer, at, acc) ==
  LET a1 == ErrorIf(/\ Truthy(Get(offer, "price"))
                    /\ ~PatternPrice(ToStr(Get(offer, "price"))),
                    acc,
                    FindingAt("error", "Invalid price format in " \o at,
                      at \o ".price", "Use numeric format like 19.99"))
      a2 == ErrorIf(/\ Truthy(Get(offer, "priceCurrency"))
                    /\ ~PatternCurrency(ToStr(Get(offer, "priceCurrency"))),
                    a1,
                    FindingAt("error", "Invalid currency code in " \o at,
                      at \o ".priceCurrency",
                      "Use 3-letter ISO 4217 currency code like USD, EUR, GBP"))
  IN WarningIf(/\ Truthy(Get(offer, "availability"))
               /\ ~(/\ Get(offer, "availability").t = "string"
                    /\ Get(offer, "availability").s \in AvailabilityValues),
               a2,
               FindingAt("warning", "Non-standard availability value in " \o at,
                 at \o ".availability",
                 "Use standard Schema.org availability values"))

\* schema.offers.forEach(...) from element idx on
RECURSIVE Offers(_, _, _)
Offers(offers, idx, acc) ==
  IF idx > Len(offers) THEN acc
  ELSE IF Nullish(offers[idx]) THEN Throw(acc, "TypeError")
  ELSE Offers(offers, idx + 1,
         OfferChecks(offers[idx], "offers[" \o ToString(idx - 1) \o "]", acc))

\* the two checks of schema.aggregateRating
RatingOf(rating, acc) ==
  LET a1 == WarningIf(/\ Truthy(Get(rating, "ratingValue"))
                      /\ \/ LessThan(Get(rating, "ratingValue"), 1)
                         \/ GreaterThan(Get(rating, "ratingValue"), 5),
                      acc,
                      FindingAt("warning", "Rating value outside typical 1-5 range",
                        "aggregateRating.ratingValue",
                        "Use values between 1 and 5 for better compatibility"))
  IN WarningIf(/\ Truthy(Get(rating, "bestRating"))
               /\ ~StrictEquals(Get(rating, "bestRating"), JNum(5)),
               a1,
               FindingAt("warning", "Best rating is not 5",
                 "aggregateRating.bestRating",
                 "Use 5 as the best rating for standard 5-star systems"))

\* the aggregateRating block
RatingChecks(schema, acc) ==
  IF ~Truthy(Get(schema, "aggregateRating")) THEN acc
  ELSE RatingOf(Get(schema, "aggregateRating"), acc)

\* the offers block
OffersBlock(schema, acc) ==
  IF Truthy(Get(schema, "offers")) /\ Get(schema, "offers").t = "array"
  THEN Offers(Get(schema, "offers").e, 1, acc)
  ELSE acc

validateDataTypes(schema, acc) ==
  IF Raised(acc) THEN acc ELSE
  LET a1 == UrlProperties(schema, 1, acc)
      a2 == ErrorIf(/\ Truthy(Get(schema, "email"))
                    /\ ~PatternEmail(ToStr(Get(schema, "email"))),
                    a1,
                    FindingAt("error", "Invalid email format", "email",
                      "Use a valid email address format"))
      a3 == ImageProperties(schema, 1, a2)
      a4 == OffersBlock(schema, a3)
      a5 == RatingChecks(schema, a4)
      a6 == WarningIf(/\ Truthy(Get(schema, "address"))
                      /\ Truthy(Get(Get(schema, "address"), "postalCode"))
                      /\ ~PatternPostalCode(ToStr(Get(Get(schema, "address"), "postalCode"))),
                      a5,
                      FindingAt("warning", "Postal code format may be invalid",
                        "address.postalCode",
                        "Check postal code format for the specific country"))
  IN WarningIf(/\ Truthy(Get(schema, "@context"))
               /\ ~PatternSchemaContext(ToStr(Get(schema, "@context"))),
               a6,
               FindingAt("warning", "Non-standard @context value", "@context",
                 "Use \"https://schema.org\" for better compatibility"))

(***************************************************************************)
(* validateContentQuality                                                  *)
(***************************************************************************)
genericTerms ==
  {"lorem ipsum", "sample text", "placeholder", "coming soon", "under construction"}

\* the first Object.keys(schema).forEach(...), from key idx on
RECURSIVE EmptyValues(_, _, _, _)
EmptyValues(schema, keys, idx, acc) ==
  IF idx > Len(keys) THEN acc
  ELSE EmptyValues(schema, keys, idx + 1,
         WarningIf(/\ TypeOf(Get(schema, keys[idx])) = "string"
                   /\ TrimIsEmpty(Get(schema, keys[idx]).s),
                   acc,
                   FindingAt("warning",
                     "Empty value for property: " \o keys[idx], keys[idx],
                     "Provide meaningful content for better SEO")))

\* the second Object.keys(schema).forEach(...), from key idx on
RECURSIVE PlaceholderValues(_, _, _, _)
PlaceholderValues(schema, keys, idx, acc) ==
  IF idx > Len(keys) THEN acc
  ELSE PlaceholderValues(schema, keys, idx + 1,
         WarningIf(/\ TypeOf(Get(schema, keys[idx])) = "string"
                   /\ \E term \in genericTerms :
                        Includes(ToLowerCase(Get(schema, keys[idx]).s), term),
                   acc,
                   FindingAt("warning",
                     "Generic placeholder content detected in " \o keys[idx], keys[idx],
                     "Replace placeholder content with actual meaningful content")))

\* text.split(/\s+/): the positions where a maximal run of non-space begins
\* (the empty strings the split yields at the ends are shorter than any word
\* that is counted)
WordStarts(text) ==
  {i \in 1..Len(text) : Ch(text, i) \notin RegexSpace
                         /\ (i = 1 \/ Ch(text, i - 1) \in RegexSpace)}
WordAt(text, i) ==
  LET ends == {j \in i..Len(text) : j = Len(text) \/ Ch(text, j + 1) \in RegexSpace}
  IN SubSeq(text, i, CHOOSE j \in ends : \A k \in ends : j <= k)

\* the reduce and the filter: some word longer than 3 is counted more than 3
\* times.  The counter object inherits constructor and __proto__, whose
\* counts never become numbers.
Repeated(text, word) ==
  /\ Len(word) > 3
  /\ word \notin {"constructor", "__proto__"}
  /\ Cardinality({j \in WordStarts(text) : WordAt(text, j) = word}) > 3
KeywordStuffing(text) == \E i \in WordStarts(text) : Repeated(text, WordAt(text, i))

\* the length check with the limits taken inclusive
DescriptionLengthInclusive(description, acc) ==
  IF ~Truthy(description) THEN acc
  ELSE IF ~GreaterThan(Get(description, "length"), 50)
  THEN WarningIf(TRUE, acc, Finding("warning", "Description is too short",
         "Write descriptions with at least 50 characters for better SEO"))
  ELSE WarningIf(~LessThan(Get(description, "length"), 160), acc,
         Finding("warning", "Description is too long",
           "Keep descriptions under 160 characters for better display"))

\* if (schema.description) { if (length < 50) ... else if (length > 160) ... }
DescriptionLength(description, acc) ==
  IF ~Truthy(description) THEN acc
  ELSE IF LessThan(Get(description, "length"), 50)
  THEN WarningIf(TRUE, acc, Finding("warning", "Description is too short",
         "Write descriptions with at least 50 characters for better SEO"))
  ELSE WarningIf(GreaterThan(Get(description, "length"), 160), acc,
         Finding("warning", "Description is too long",
           "Keep descriptions under 160 characters for better display"))

\* if (schema.description) { schema.description.toLowerCase().split(...) ... }
KeywordCheck(description, acc) ==
  IF ~Truthy(description) THEN acc
  ELSE IF description.t # "string" THEN Throw(acc, "TypeError")
  ELSE WarningIf(KeywordStuffing(ToLowerCase(description.s)), acc,
         Finding("warning", "Potential keyword stuffing detected",
           "Avoid repeating the same words too frequently in descriptions"))

validateContentQuality(schema, schemaType, acc) ==
  IF Raised(acc) THEN acc ELSE
  LET a1 == EmptyValues(schema, ObjectKeys(schema), 1, acc)
      a2 == DescriptionLength(Get(schema, "description"), a1)
      a3 == WarningIf(/\ Truthy(Get(schema, "name"))
                      /\ GreaterThan(Get(Get(schema, "name"), "length"), 100),
                      a2,
                      Finding("warning", "Name is very long",
                        "Keep names under 100 characters for better display"))
      a4 == WarningIf(/\ schemaType = "Article"
                      /\ Truthy(Get(schema, "headline"))
                      /\ GreaterThan(Get(Get(schema, "headline"), "length"), 110),
                      a3,
                      Finding("warning", "Headline is too long for optimal SEO",
                        "Keep headlines under 110 characters for better search display"))
      a5 == InfoIf(/\ Truthy(Get(schema, "name"))
                   /\ Truthy(Get(schema, "headline"))
                   /\ StrictEquals(Get(schema, "name"), Get(schema, "headline")),
                   a4,
                   Finding("info", "Name and headline are identical",
                     "Consider using different values for name and headline"))
      a6 == PlaceholderValues(schema, ObjectKeys(schema), 1, a5)
      a7 == WarningIf(/\ Truthy(Get(schema, "description"))
                      /\ LessThan(Get(Get(schema, "description"), "length"), 20),
                      a6,
                      Finding("warning", "Description may be too short",
                        "Provide more detailed description for better SEO"))
  IN KeywordCheck(Get(schema, "description"), a7)

(***************************************************************************)
(* calculateValidationScore and validateSchema                             *)
(***************************************************************************)
Max(a, b) == IF a >= b THEN a ELSE b
Min(a, b) == IF a <= b THEN a ELSE b

\* the score without the clamp
calculateValidationScoreUnclamped(errors, warnings, info) ==
  100 - Len(errors) * 20 - Len(warnings) * 5 - Len(info) * 1

calculateValidationScore(errors, warnings, info) ==
  Max(0, Min(100, 100 - Len(errors) * 20 - Len(warnings) * 5 - Len(info) * 1))

\* the four stages, run on the value the text parsed to; a stage is not
\* entered once an earlier one has raised
Stages(schema, expectedType) ==
  validateContentQuality(schema, expectedType,
    validateDataTypes(schema,
      validateSchemaOrgStructure(schema, expectedType,
        validateJsonLdStructure(schema, NoFindings))))

\* what follows const schema = JSON.parse(schemaObj.schema) in the try block
AfterParse(parsed, expectedType) ==
  IF ~parsed.ok THEN Throw(NoFindings, "SyntaxError") ELSE Stages(parsed.v, expectedType)

\* the body of the try block
TryBlock(schemaObj) == AfterParse(JSONparse(schemaObj.schema), schemaObj.type)

\* a catch block that reports the failure as a warning
CatchBlockAsWarning(acc) ==
  IF Raised(acc)
  THEN [PushWarning(acc, Finding("warning", "Invalid JSON syntax",
          "Check for missing commas, brackets, or quotes")) EXCEPT !.thrown = "none"]
  ELSE acc

\* a catch block that handles the SyntaxError of JSON.parse and rethrows the rest
CatchBlockSyntaxErrorOnly(acc) ==
  IF acc.thrown = "SyntaxError"
  THEN [PushError(acc, Finding("error", "Invalid JSON syntax",
          "Check for missing commas, brackets, or quotes")) EXCEPT !.thrown = "none"]
  ELSE acc

\* catch (parseError) { errors.push(...) }: whatever was raised is caught
CatchBlock(acc) ==
  IF Raised(acc)
  THEN [PushError(acc, Finding("error", "Invalid JSON syntax",
          "Check for missing commas, brackets, or quotes")) EXCEPT !.thrown = "none"]
  ELSE acc

\* validity that tolerates one error
IsValidUpToOne(errors) == Len(errors) <= 1

\* isValid: errors.length === 0
IsValid(errors) == Len(errors) = 0

(***************************************************************************)
(* The entry points.  A call allocates its arrays in the heap, pushes its  *)
(* findings into them and returns a result that refers to them by address. *)
(***************************************************************************)
\* arrays created once and used again by every later call
NewArraysShared(h) ==
  IF Len(h) >= 3 THEN [heap |-> h, errors |-> 1, warnings |-> 2, info |-> 3]
  ELSE [heap |-> h \o <<<<>>, <<>>, <<>>>>,
        errors |-> Len(h) + 1, warnings |-> Len(h) + 2, info |-> Len(h) + 3]

\* const errors = []; const warnings = []; const info = [];
NewArrays(h) ==
  [heap |-> h \o <<<<>>, <<>>, <<>>>>,
   errors |-> Len(h) + 1, warnings |-> Len(h) + 2, info |-> Len(h) + 3]

\* the push calls collected in acc, applied to the arrays a
PushFindings(h, a, acc) ==
  [h EXCEPT ![a.errors] = @ \o acc.errors,
            ![a.warnings] = @ \o acc.warnings,
            ![a.info] = @ \o acc.info]

\* return { isValid, errors, warnings, info, score } with the arrays a, read
\* from the heap h
ResultOf(h, a) ==
  [isValid |-> IsValid(h[a.errors]),
   errors |-> a.errors,
   warnings |-> a.warnings,
   info |-> a.info,
   score |-> calculateValidationScore(h[a.errors], h[a.warnings], h[a.info])]

\* the outcome of a call: the heap it leaves, whether an exception leaves it,
\* and the value it returns
Outcome(h, raised, result) == [heap |-> h, raised |-> raised, result |-> result]

\* validateSchema with its arrays a allocated and the findings acc that its
\* try and catch blocks push
ValidateInto(a, acc) ==
  Outcome(PushFindings(a.heap, a, acc), Raised(acc),
          ResultOf(PushFindings(a.heap, a, acc), a))

\* validateSchema(schemaObj) run on the heap h
validateSchema(h, schemaObj) == ValidateInto(NewArrays(h), CatchBlock(TryBlock(schemaObj)))

\* schemas.map(schema => ({...schema, validation: this.validateSchema(schema)}))
\* from element idx on; out collects the mapped elements
RECURSIVE MapValidateSchema(_, _, _, _)
RECURSIVE MapElement(_, _, _, _)
MapElement(v, schemas, idx, out) ==
  IF v.raised THEN Outcome(v.heap, TRUE, out)
  ELSE MapValidateSchema(v.heap, schemas, idx + 1,
         Append(out, [type |-> schemas[idx].type,
                      schema |-> schemas[idx].schema,
                      validation |-> v.result]))

MapValidateSchema(h, schemas, idx, out) ==
  IF idx > Len(schemas) THEN Outcome(h, FALSE, out)
  ELSE MapElement(validateSchema(h, schemas[idx]), schemas, idx, out)

validateSchemas(h, schemas) == MapValidateSchema(h, schemas, 1, <<>>)

(***************************************************************************)
(* validateSchemaRelationships and validateSchemasForSEO                   *)
(***************************************************************************)
conflictingPairs ==
  <<<<"Recipe", "HowTo">>, <<"Product", "Recipe">>, <<"Event", "Article">>,
    <<"FAQPage", "Article">>, <<"Review", "Article">>>>

\* schemaTypes.includes(type)
TypesInclude(schemaTypes, type) == \E i \in 1..Len(schemaTypes) : schemaTypes[i] = type

\* a loop over the pairs that warns as soon as either type is declared
RECURSIVE ConflictingPairsEither(_, _, _)
ConflictingPairsEither(schemaTypes, idx, acc) ==
  IF idx > Len(conflictingPairs) THEN acc
  ELSE ConflictingPairsEither(schemaTypes, idx + 1,
         WarningIf(\/ TypesInclude(schemaTypes, conflictingPairs[idx][1])
                   \/ TypesInclude(schemaTypes, conflictingPairs[idx][2]),
                   acc,
                   Finding("warning",
                     "Potential conflict between " \o conflictingPairs[idx][1] \o " and "
                       \o conflictingPairs[idx][2] \o " schemas",
                     "These schema types may compete for rich snippet display. Consider prioritizing the most relevant one.")))

\* for (const [type1, type2] of conflictingPairs) from pair idx on
RECURSIVE ConflictingPairs(_, _, _)
ConflictingPairs(schemaTypes, idx, acc) ==
  IF idx > Len(conflictingPairs) THEN acc
  ELSE ConflictingPairs(schemaTypes, idx + 1,
         WarningIf(/\ TypesInclude(schemaTypes, conflictingPairs[idx][1])
                   /\ TypesInclude(schemaTypes, conflictingPairs[idx][2]),
                   acc,
                   Finding("warning",
                     "Potential conflict between " \o conflictingPairs[idx][1] \o " and "
                       \o conflictingPairs[idx][2] \o " schemas",
                     "These schema types may compete for rich snippet display. Consider prioritizing the most relevant one.")))

\* what follows const parsed = JSON.parse(schema.schema) in the try block of
\* the per-document loop
RelationshipChecks(type, p, acc) ==
  IF ~p.ok THEN Throw(acc, "SyntaxError")
  ELSE IF type \in {"Article", "Product", "Organization"} /\ Nullish(p.v)
  THEN Throw(acc, "TypeError")
  ELSE IF type = "Article"
  THEN WarningIf(~(/\ Truthy(Get(p.v, "headline"))
                   /\ Truthy(Get(p.v, "description"))
                   /\ (Truthy(Get(p.v, "author")) \/ Truthy(Get(p.v, "publisher")))
                   /\ (Truthy(Get(p.v, "datePublished"))
                         \/ Truthy(Get(p.v, "dateModified")))),
                 acc,
                 Finding("warning", "Article schema may be missing essential properties",
                   "Ensure Article schema includes headline, description, author/publisher, and publication dates"))
  ELSE IF type = "Product"
  THEN WarningIf(~(\/ Truthy(Get(p.v, "offers"))
                   \/ Truthy(Get(p.v, "price"))
                   \/ Truthy(Get(p.v, "availability"))),
                 acc,
                 Finding("warning", "Product schema may be missing commercial properties",
                   "Include offers, price, or availability information for better rich snippets"))
  ELSE IF type = "Organization"
  THEN WarningIf(~(Truthy(Get(p.v, "address")) /\ Truthy(Get(p.v, "contactPoint"))),
                 acc,
                 Finding("warning", "Organization schema may be missing contact information",
                   "Include complete address and contact point for better local SEO"))
  ELSE acc

\* the body of the try block of the per-document loop
RelationshipTryBlock(schema, acc) ==
  RelationshipChecks(schema.type, JSONparse(schema.schema), acc)

\* catch (parseError) { /* skip */ }
RelationshipCatchBlock(acc) == [acc EXCEPT !.thrown = "none"]

\* schemas.forEach(schema => { try {...} catch {...} }) from element idx on
RECURSIVE RelationshipDocuments(_, _, _)
RelationshipDocuments(schemas, idx, acc) ==
  IF idx > Len(schemas) THEN acc
  ELSE RelationshipDocuments(schemas, idx + 1,
         RelationshipCatchBlock(RelationshipTryBlock(schemas[idx], acc)))

\* the count on which the last check of validateSchemaRelationships decides
schemaCount(schemaTypes) == Len(schemaTypes)

\* the checks of validateSchemaRelationships, schemaTypes being
\* schemas.map(s => s.type)
RelationshipsOfTypes(schemas, schemaTypes, acc) ==
  LET a1 == ConflictingPairs(schemaTypes, 1, acc)
      a2 == InfoIf(/\ ~TypesInclude(schemaTypes, "Organization")
                   /\ ~TypesInclude(schemaTypes, "WebSite"),
                   a1,
                   Finding("info", "Consider adding Organization or WebSite schema",
                     "Organization schema helps establish site identity, WebSite schema provides site-level metadata"))
      a3 == RelationshipDocuments(schemas, 1, a2)
      a4 == WarningIf(schemaCount(schemaTypes) > 10, a3,
              Finding("warning", "High number of schema types detected",
                "Consider limiting to 2-10 relevant schemas per page for optimal SEO performance"))
  IN InfoIf(~(schemaCount(schemaTypes) > 10) /\ schemaCount(schemaTypes) < 2, a4,
       Finding("info", "Consider adding more schema types",
         "Multiple relevant schemas can enhance search engine understanding"))

validateSchemaRelationships(schemas, acc) ==
  RelationshipsOfTypes(schemas, [i \in 1..Len(schemas) |-> schemas[i].type], acc)

\* the recommendations of validateSchemasForSEO
Recommendations(schemaTypes) ==
  (IF TypesInclude(schemaTypes, "Article") /\ ~TypesInclude(schemaTypes, "WebSite")
   THEN <<"Add WebSite schema to establish site-level metadata">> ELSE <<>>)
  \o (IF TypesInclude(schemaTypes, "Product") /\ ~TypesInclude(schemaTypes, "Organization")
      THEN <<"Add Organization schema to establish business identity">> ELSE <<>>)
  \o (IF /\ TypesInclude(schemaTypes, "LocalBusiness")
         /\ ~TypesInclude(schemaTypes, "Organization")
      THEN <<"Consider adding Organization schema for business verification">> ELSE <<>>)
  \o (IF TypesInclude(schemaTypes, "FAQPage") /\ Len(schemaTypes) < 3
      THEN <<"FAQ pages benefit from additional schemas like Article or WebSite">>
      ELSE <<>>)
  \o (IF ~\E i \in 1..Len(schemaTypes) :
            schemaTypes[i] \in {"Article", "Product", "Event", "FAQPage"}
      THEN <<"Consider content-specific schemas like Article, Product, or Event">>
      ELSE <<>>)

\* a collection that accumulates in the arrays of the first validated document
RECURSIVE CollectIssuesInFirst(_, _, _, _)
CollectIssuesInFirst(h, a, validatedSchemas, idx) ==
  IF idx > Len(validatedSchemas) THEN h
  ELSE CollectIssuesInFirst(
         IF idx = 1 THEN h
         ELSE [h EXCEPT
                 ![validatedSchemas[1].validation.errors]
                    = @ \o h[validatedSchemas[idx].validation.errors],
                 ![validatedSchemas[1].validation.warnings]
                    = @ \o h[validatedSchemas[idx].validation.warnings],
                 ![validatedSchemas[1].validation.info]
                    = @ \o h[validatedSchemas[idx].validation.info]],
         a, validatedSchemas, idx + 1)

\* validatedSchemas.forEach(validated => { errors.push(...validated.validation.errors);
\* ... }) from element idx on
RECURSIVE CollectIssues(_, _, _, _)
CollectIssues(h, a, validatedSchemas, idx) ==
  IF idx > Len(validatedSchemas) THEN h
  ELSE CollectIssues([h EXCEPT
                        ![a.errors] = @ \o h[validatedSchemas[idx].validation.errors],
                        ![a.warnings] = @ \o h[validatedSchemas[idx].validation.warnings],
                        ![a.info] = @ \o h[validatedSchemas[idx].validation.info]],
                     a, validatedSchemas, idx + 1)

\* a validateSchemasForSEO that runs the relationship checks before it
\* collects the findings of the documents
SEOIntoRelationshipsFirst(a, m, rel, schemas) ==
  [heap |-> IF m.raised THEN m.heap
            ELSE CollectIssues(PushFindings(m.heap, a, rel), a, m.result, 1),
   raised |-> m.raised \/ Raised(rel),
   validated |-> m.result,
   result |-> [errors |-> a.errors, warnings |-> a.warnings, info |-> a.info,
               recommendations |->
                 Recommendations([i \in 1..Len(schemas) |-> schemas[i].type])]]

\* validateSchemasForSEO with its arrays a allocated, m the outcome of its
\* schemas.map(...) and rel the findings validateSchemaRelationships pushes
SEOInto(a, m, rel, schemas) ==
  [heap |-> IF m.raised THEN m.heap
            ELSE PushFindings(CollectIssues(m.heap, a, m.result, 1), a, rel),
   raised |-> m.raised \/ Raised(rel),
   validated |-> m.result,
   result |-> [errors |-> a.errors, warnings |-> a.warnings, info |-> a.info,
               recommendations |->
                 Recommendations([i \in 1..Len(schemas) |-> schemas[i].type])]]

\* the arrays of validateSchemasForSEO allocated, its map run after them
SEOWithArrays(a, schemas) ==
  SEOInto(a, MapValidateSchema(a.heap, schemas, 1, <<>>),
          validateSchemaRelationships(schemas, NoFindings), schemas)

\* validateSchemasForSEO(schemas) run on the heap h
validateSchemasForSEO(h, schemas) == SEOWithArrays(NewArrays(h), schemas)

(***************************************************************************)
(* The display helpers.  A ValidationResult is given with the contents of  *)
(* its arrays.  The emoji of getValidationStatusIcon are written by name:  *)
(* "check" for U+2705, "warning" for U+26A0 U+FE0F, "cross" for U+274C.    *)
(***************************************************************************)
\* `${n} noun${n > 1 ? 's' : ''}`
CountedAboveOne(n, noun) == ToString(n) \o " " \o noun \o (IF n > 1 THEN "s" ELSE "")

\* `${n} noun${n !== 1 ? 's' : ''}`
Counted(n, noun) == ToString(n) \o " " \o noun \o (IF n # 1 THEN "s" ELSE "")

\* a summary that adds the plural 's' only to counts above 1
getValidationSummaryAboveOne(validation) ==
  IF validation.isValid /\ Len(validation.warnings) = 0
  THEN "Perfect! All validations passed."
  ELSE IF validation.isValid
  THEN CountedAboveOne(Len(validation.warnings), "warning") \o " found."
  ELSE CountedAboveOne(Len(validation.errors), "error") \o " and "
         \o CountedAboveOne(Len(validation.warnings), "warning") \o " found."

getValidationSummary(validation) ==
  IF validation.isValid /\ Len(validation.warnings) = 0
  THEN "Perfect! All validations passed."
  ELSE IF validation.isValid
  THEN Counted(Len(validation.warnings), "warning") \o " found."
  ELSE Counted(Len(validation.errors), "error") \o " and "
         \o Counted(Len(validation.warnings), "warning") \o " found."

getValidationStatusColor(validation) ==
  IF validation.isValid /\ Len(validation.warnings) = 0 THEN "text-green-600"
  ELSE IF validation.isValid THEN "text-yellow-600"
  ELSE "text-red-600"

getValidationStatusIcon(validation) ==
  IF validation.isValid /\ Len(validation.warnings) = 0 THEN "check"
  ELSE IF validation.isValid THEN "warning"
  ELSE "cross"

\* the element getStatusIcon of ValidationResults returns
getStatusIcon(validation) ==
  IF validation.isValid /\ Len(validation.warnings) = 0
  THEN [element |-> "CheckCircleIcon", className |-> "w-5 h-5 text-green-600"]
  ELSE IF validation.isValid
  THEN [element |-> "ExclamationTriangleIcon", className |-> "w-5 h-5 text-yellow-600"]
  ELSE [element |-> "XCircleIcon", className |-> "w-5 h-5 text-red-600"]

getStatusText(validation) ==
  IF validation.isValid /\ Len(validation.warnings) = 0 THEN "Valid"
  ELSE IF validation.isValid THEN "Valid with warnings"
  ELSE "Invalid"

getStatusColor(validation) ==
  IF validation.isValid /\ Len(validation.warnings) = 0 THEN "text-green-600"
  ELSE IF validation.isValid THEN "text-yellow-600"
  ELSE "text-red-600"

\* what the helpers give for one result
Render(validation) ==
  [validation |-> validation,
   summary |-> getValidationSummary(validation),
   color |-> getValidationStatusColor(validation),
   icon |-> getValidationStatusIcon(validation),
   statusIcon |-> getStatusIcon(validation),
   statusText |-> getStatusText(validation),
   statusColor |-> getStatusColor(validation)]

(***************************************************************************)
(* The calls: a caller invokes an entry point and keeps what it returns.   *)
(***************************************************************************)
\* the values the texts of the documents parse to: const parsedSchema =
\* JSON.parse(schemaObj.schema), for each document of the input
ParsedSchemas(input) == [k \in DOMAIN input |-> JSONparse(input[k].schema)]

\* what the caller keeps of a call, with the values its documents parsed to
Kept(op, input, out) ==
  CASE op = "validateSchema" ->
         [op |-> op, input |-> input, parsed |-> ParsedSchemas(input),
          raised |-> out.raised, results |-> <<out.result>>]
    [] op = "validateSchemas" ->
         [op |-> op, input |-> input, parsed |-> ParsedSchemas(input),
          raised |-> out.raised,
          results |-> [i \in 1..Len(out.result) |-> out.result[i].validation]]
    [] OTHER ->
         [op |-> op, input |-> input, parsed |-> ParsedSchemas(input),
          raised |-> out.raised,
          results |-> [i \in 1..Len(out.validated) |-> out.validated[i].validation],
          batch |-> out.result]

\* a call returns: the heap is as the call leaves it
Call(op, input, out) ==
  /\ heap' = out.heap
  /\ returned' = Append(returned, Kept(op, input, out))
  /\ UNCHANGED <<SCHEMA_REQUIREMENTS, displayed, App, requests>>

ValidateSchemaCall(schemaObj) ==
  Call("validateSchema", <<schemaObj>>, validateSchema(heap, schemaObj))

ValidateSchemasCall(schemas) ==
  Call("validateSchemas", schemas, validateSchemas(heap, schemas))

ValidateSchemasForSEOCall(schemas) ==
  Call("validateSchemasForSEO", schemas, validateSchemasForSEO(heap, schemas))

(***************************************************************************)
(* The inputs.                                                             *)
(***************************************************************************)
MaxItems == 2

RECURSIVE Repeat(_, _)
Repeat(c, n) ==
  IF n = 0 THEN ""
  ELSE LET h == Repeat(c, n \div 2) IN h \o h \o (IF n % 2 = 1 THEN c ELSE "")

\* all sequences over S of length at most n
RECURSIVE SeqsUpTo(_, _)
SeqsUpTo(S, n) ==
  IF n = 0 THEN {<<>>}
  ELSE LET shorter == SeqsUpTo(S, n - 1)
       IN shorter \cup {Append(q, e) : q \in {r \in shorter : Len(r) = n - 1}, e \in S}

\* a property with each of the given values, or left out (the empty sequence)
Optional(key, values) == {<<>>} \cup {<<Member(key, v)>> : v \in values}

ExpectedTypes == {"Article", "Organization", "BreadcrumbList", "Recipe"}

ContextOptions ==
  Optional("@context", {JStr("https://schema.org"), JStr("http://schema.org"),
                        JStr("https://schema.org/"), JStr("https://example.org/ns"),
                        JStr(""), JNull})
TypeOptions ==
  Optional("@type", {JStr("Article"), JStr("Organization"), JStr("BreadcrumbList"),
                     JStr("FAQPage"), JStr("Recipe"), JStr(""), JNum(5)})
IdOptions == Optional("@id", {JStr("https://example.com/#id"), JStr(""), JNum(0)})

StandardHeader ==
  <<Member("@context", JStr("https://schema.org")),
    Member("@id", JStr("https://example.com/#id"))>>

\* documents that vary the three JSON-LD keywords
HeaderDocuments ==
  {JObj(c \o t \o i \o b) :
     c \in ContextOptions, t \in TypeOptions, i \in IdOptions,
     b \in Optional("name", {JStr("Acme")})}

\* documents that vary the listed properties: left out, falsy, or filled in
PropertyDocuments ==
  {JObj(StandardHeader \o t \o n \o h \o d \o c) :
     t \in Optional("@type", {JStr("Article"), JStr("Organization"),
                              JStr("BreadcrumbList"), JStr("Recipe")}),
     n \in Optional("name", {JStr("Acme"), JStr(""), JStr("  ")}),
     h \in Optional("headline", {JStr("Acme"), JStr("Foo"), JStr("")}),
     d \in Optional("description", {JStr("An example description."), JNum(5), JStr("")}),
     c \in Optional("numberOfItems", {JNum(2), JNum(0)})}

\* the elements of a generated list
ListElements ==
  {JNull, JObj(<<>>),
   JObj(<<Member("name", JStr("Home")), Member("question", JStr("Why?")),
          Member("answer", JStr("Because.")), Member("price", JNum(10))>>)}

\* documents with a list-valued property
ListDocuments ==
  {JObj(StandardHeader \o <<Member("@type", JStr(ty[1])), Member(ty[2], JArr(l))>>
          \o n) :
     ty \in {<<"BreadcrumbList", "itemListElement">>, <<"FAQPage", "mainEntity">>,
             <<"HowTo", "step">>, <<"Product", "offers">>},
     l \in SeqsUpTo(ListElements, MaxItems),
     n \in {<<>>, <<Member("description", JStr("An example description."))>>,
            <<Member("name", JStr("Foo")), Member("headline", JStr("Foo"))>>,
            <<Member("name", JStr(""))>>}}

\* documents whose @type names a property every object inherits
InheritedKeyDocuments ==
  {JObj(StandardHeader \o <<Member("@type", JStr("constructor"))>> \o n) :
     n \in Optional("name", {JStr("Acme")})}

\* texts that are not the serialisation of an object
RawTexts ==
  {"", "{", "not json", "{\"@type\":\"Article\",}", "{'@type':'Article'}",
   "{\"@context\":\"https://schema.org\"", "null", "5", "true", "\"Article\"",
   "[]", "[null]", " {\"@type\" : \"Article\"} "}

\* the values of a date property
DateValues ==
  {JStr("01/15/2024"), JStr("2024-01-15"), JStr("2024-01-15T14:30:00Z"),
   JStr("2024-01-15T14:30:00.123"), JStr("2024-01-15T14:30"),
   JStr("January 15, 2024"), JStr(""), JNum(20240115), JNum(0), JNull,
   JArr(<<JStr("2024-01-15")>>)}

\* documents with date properties, with and without an @type of their own
DateDocuments ==
  {JObj(StandardHeader \o t \o <<Member("headline", JStr("Acme"))>> \o p \o m \o b) :
     t \in Optional("@type", {JStr("Article"), JStr("Event"), JStr("Recipe")}),
     p \in Optional("datePublished", DateValues),
     m \in Optional("dateModified", {JStr("2024-01-16"), JStr("16.01.2024"), JStr("")}),
     b \in Optional("startDate", {JStr("2024-02-01T09:00:00"), JStr("02/01/2024")})}

\* the expected types the date documents are validated with
DateExpectedTypes == {"Article", "Event", "Recipe"}

Documents ==
  HeaderDocuments \cup PropertyDocuments \cup ListDocuments \cup InheritedKeyDocuments

\* the inputs of a single validateSchema call
Inputs ==
  {[type |-> e, schema |-> Stringify(doc)] : e \in ExpectedTypes, doc \in Documents}
    \cup {[type |-> e, schema |-> text] : e \in ExpectedTypes \cup {"constructor"},
                                            text \in RawTexts}
    \cup {[type |-> e, schema |-> Stringify(doc)] : e \in DateExpectedTypes,
                                                     doc \in DateDocuments}

MaxDocs == 2

\* the documents of the batches
BatchInputs ==
  {[type |-> "Article", schema |-> Stringify(JObj(StandardHeader \o
      <<Member("@type", JStr("Article")), Member("headline", JStr("Acme")),
        Member("name", JStr("Acme")), Member("author", JStr("Jo")),
        Member("datePublished", JStr("2024-01-15")),
        Member("description", JStr("An example description."))>>))],
   [type |-> "Organization",
    schema |-> "{\"@context\":\"https://schema.org\",\"@type\":\"Organization\",\"name\":\"Acme\"}"],
   [type |-> "FAQPage", schema |-> Stringify(JObj(StandardHeader \o
      <<Member("@type", JStr("FAQPage")), Member("mainEntity", JArr(<<JNull>>))>>))],
   [type |-> "Product", schema |-> Stringify(JObj(StandardHeader \o
      <<Member("@type", JStr("Product")), Member("name", JStr("Acme")),
        Member("description", JNum(5))>>))],
   [type |-> "Article", schema |-> "{"],
   [type |-> "Article", schema |-> "null"],
   [type |-> "Organization", schema |-> "5"],
   [type |-> "Product", schema |-> "[null]"]}

Batches == SeqsUpTo(BatchInputs, MaxDocs)

\* batches of one document without errors: no finding at all, and one warning
CleanBatches ==
  {<<[type |-> "Recipe", schema |-> Stringify(JObj(h \o <<Member("@type", JStr("Recipe"))>>))]>> :
     h \in {StandardHeader, <<Member("@context", JStr("https://schema.org"))>>}}

MaxDeclared == 3

\* the types named in the conflicting pairs
PairedTypes == {"Recipe", "HowTo", "Product", "Event", "Article", "FAQPage", "Review"}

\* batches that vary the declared types: each document declares a type and
\* carries a minimal document of that type
DeclaredBatches ==
  {[i \in DOMAIN q |->
      [type |-> q[i], schema |-> Stringify(JObj(<<Member("@type", JStr(q[i]))>>))]] :
     q \in SeqsUpTo(PairedTypes, MaxDeclared)}

(***************************************************************************)
(* Spec: one call of an entry point, on any input, in a fresh module.      *)
(***************************************************************************)
\* useState('') / useState([]) / useState(false) / useState(null) /
\* useRef(false) / useRef(null): null is 0 for the controller and the empty
\* sequence for the error
AppInit ==
  [url |-> "", schemas |-> <<>>, isLoading |-> FALSE, error |-> <<>>,
   isCancelledRef |-> FALSE, abortControllerRef |-> 0]

Init ==
  /\ SCHEMA_REQUIREMENTS = SchemaRequirementsLiteral
  /\ heap = <<>>
  /\ returned = <<>>
  /\ displayed = <<>>
  /\ App = AppInit
  /\ requests = <<>>

ValidateOne ==
  returned = <<>> /\ \E schemaObj \in Inputs : ValidateSchemaCall(schemaObj)

ValidateMany ==
  returned = <<>> /\ \E schemas \in Batches \cup CleanBatches :
                       ValidateSchemasCall(schemas)

ValidateForSEO ==
  returned = <<>> /\ \E schemas \in Batches \cup DeclaredBatches :
                       ValidateSchemasForSEOCall(schemas)

\* the interface shows one of the results of a validateSchemas call
Display ==
  /\ displayed = <<>>
  /\ \E c \in DOMAIN returned : \E k \in DOMAIN returned[c].results :
       /\ returned[c].op = "validateSchemas"
       /\ displayed' = <<Render([isValid |-> returned[c].results[k].isValid,
                                  errors |-> heap[returned[c].results[k].errors],
                                  warnings |-> heap[returned[c].results[k].warnings],
                                  info |-> heap[returned[c].results[k].info],
                                  score |-> returned[c].results[k].score])>>
  /\ UNCHANGED <<SCHEMA_REQUIREMENTS, heap, returned, App, requests>>

Next == ValidateOne \/ ValidateMany \/ ValidateForSEO \/ Display

Spec == Init /\ [][Next]_vars

(***************************************************************************)
(* SpecCalls: sequences of calls whose results the caller keeps.           *)
(***************************************************************************)
MaxCalls == 2

CallInputs ==
  {[type |-> "Article", schema |-> Stringify(JObj(
      <<Member("@context", JStr("http://schema.org")),
        Member("@type", JStr("Article")), Member("headline", JStr("Acme")),
        Member("name", JStr("Acme")),
        Member("datePublished", JStr("01/15/2024"))>>))],
   [type |-> "Organization", schema |-> "null"]}

\* the batches of the calls: no, one or two of the documents
CallBatches ==
  {<<>>} \cup {<<a>> : a \in CallInputs} \cup {<<a, b>> : a, b \in CallInputs}

CallOne ==
  Len(returned) < MaxCalls /\ \E schemaObj \in CallInputs : ValidateSchemaCall(schemaObj)

CallMany ==
  Len(returned) < MaxCalls /\ \E schemas \in CallBatches : ValidateSchemasCall(schemas)

CallForSEO ==
  Len(returned) < MaxCalls /\ \E schemas \in CallBatches : ValidateSchemasForSEOCall(schemas)

NextCalls == CallOne \/ CallMany \/ CallForSEO

SpecCalls == Init /\ [][NextCalls]_vars

(***************************************************************************)
(* SpecFields: one validateSchema call on a document that varies the       *)
(* values of one group of properties.                                      *)
(***************************************************************************)
\* documents with a headline around the limit of 110 characters, with and
\* without an @type of their own
HeadlineDocuments ==
  {JObj(StandardHeader \o t \o h \o o) :
     t \in Optional("@type", {JStr("Article"), JStr("NewsArticle"), JStr("Recipe")}),
     h \in Optional("headline", {JStr("Acme"), JStr(Repeat("h", 110)),
                                 JStr(Repeat("h", 111))}),
     o \in Optional("offers", {JArr(<<JNull>>)})}

\* documents with an aggregateRating whose two ratings vary
RatingDocuments ==
  {JObj(StandardHeader \o <<Member("@type", JStr("Product")),
                            Member("name", JStr("Acme")),
                            Member("aggregateRating", JObj(r \o b))>>) :
     r \in Optional("ratingValue", {JNum(-1), JNum(0), JNum(1), JNum(3), JNum(5),
                                    JNum(6), JStr("4"), JStr("9")}),
     b \in Optional("bestRating", {JNum(0), JNum(5), JNum(10), JStr("5")})}

\* one offer: with a price, with a free price, with a malformed price, without
Offer ==
  {JObj(p \o c) :
     p \in Optional("price", {JNum(10), JNum(0), JStr("19.99"), JStr("cheap")}),
     c \in Optional("priceCurrency", {JStr("USD")})}

\* documents whose offers is left out, one offer, or a list of offers
OfferDocuments ==
  {JObj(StandardHeader \o t \o <<Member("name", JStr("Acme"))>> \o o) :
     t \in Optional("@type", {JStr("Product"), JStr("Event")}),
     o \in Optional("offers", Offer \cup {JArr(<<>>)}
                                \cup {JArr(<<a>>) : a \in Offer}
                                \cup {JArr(<<a, b>>) : a, b \in Offer})}

\* documents that vary @context, alone and followed by a list with a null element
ContextDocuments ==
  {JObj(c \o <<Member("@id", JStr("https://example.com/#id")),
                Member("@type", JStr("FAQPage"))>> \o l) :
     c \in Optional("@context",
            {JStr("https://schema.org"), JStr("http://schema.org"),
             JStr("https://schema.org/"), JStr("http://schema.org/"),
             JStr("https://schema.org//"), JStr("https://www.schema.org"),
             JStr("schema.org"), JStr("https://example.org/ns"), JStr(""), JNum(0),
             JNull, JArr(<<JStr("https://schema.org")>>), JObj(<<>>)}),
     l \in Optional("mainEntity", {JArr(<<>>), JArr(<<JNull>>)})}

\* the lengths of the descriptions: around the limits 20, 50 and 160
DescriptionLengths == {0, 1, 10, 19, 20, 21, 49, 50, 51, 159, 160, 161}

\* documents that vary the length of the description
DescriptionDocuments ==
  {JObj(StandardHeader \o <<Member("@type", JStr("Product")),
                            Member("name", JStr("Acme"))>> \o o
          \o <<Member("description", JStr(Repeat("d", n)))>>) :
     n \in DescriptionLengths,
     o \in Optional("offers", {JObj(<<Member("price", JNum(10))>>), JArr(<<JNull>>)})}

FieldDocuments ==
  HeadlineDocuments \cup RatingDocuments \cup OfferDocuments \cup ContextDocuments
    \cup DescriptionDocuments

\* the expected types the documents are validated with
FieldExpectedTypes == {"Article", "Product", "Recipe"}

FieldInputs ==
  {[type |-> e, schema |-> Stringify(doc)] : e \in FieldExpectedTypes,
                                             doc \in FieldDocuments}

\* documents of a type without requirements that vary what gives a result
\* its Errors, Warnings and Info findings
ShownDocuments ==
  {JObj(c \o i \o t \o n \o h) :
     c \in Optional("@context", {JStr("https://schema.org"), JStr("http://schema.org")}),
     i \in Optional("@id", {JStr("https://example.com/#id")}),
     t \in Optional("@type", {JStr("Recipe")}),
     n \in Optional("name", {JStr("Foo")}),
     h \in Optional("headline", {JStr("Foo"), JStr("Bar")})}

\* the batches of one generated document the interface validates and shows
ShownBatches == {<<[type |-> "Recipe", schema |-> Stringify(doc)]>> : doc \in ShownDocuments}

ValidateField ==
  returned = <<>> /\ \E schemaObj \in FieldInputs : ValidateSchemaCall(schemaObj)

ValidateShown ==
  returned = <<>> /\ \E schemas \in ShownBatches : ValidateSchemasCall(schemas)

NextFields == ValidateField \/ ValidateShown \/ Display

SpecFields == Init /\ [][NextFields]_vars

(***************************************************************************)
(* SpecBatches: one validateSchemasForSEO call on a batch that varies the  *)
(* number of documents or the properties the relationship checks read.     *)
(***************************************************************************)
\* a document of the batch: the declared type and the text of the document
Declare(type, doc) == [type |-> type, schema |-> Stringify(doc)]

\* Article documents that vary the properties of the content check
ArticleDocuments ==
  {Declare("Article", JObj(<<Member("@type", JStr("Article"))>>
                             \o h \o d \o a \o p \o dp \o dm)) :
     h \in Optional("headline", {JStr("Acme"), JStr("")}),
     d \in Optional("description", {JStr("An example description.")}),
     a \in Optional("author", {JStr("Jo")}),
     p \in Optional("publisher", {JStr("Acme Press")}),
     dp \in Optional("datePublished", {JStr("2024-01-15")}),
     dm \in Optional("dateModified", {JStr("2024-01-16")})}

\* Product documents that vary the commercial properties
ProductDocuments ==
  {Declare("Product", JObj(<<Member("@type", JStr("Product"))>> \o o \o p \o a)) :
     o \in Optional("offers", {JObj(<<Member("price", JNum(10))>>)}),
     p \in Optional("price", {JNum(10), JNum(0)}),
     a \in Optional("availability", {JStr("InStock")})}

\* Organization documents that vary the contact properties
OrganizationDocuments ==
  {Declare("Organization", JObj(<<Member("@type", JStr("Organization"))>> \o a \o c)) :
     a \in Optional("address", {JStr("1 Main Street"), JStr("")}),
     c \in Optional("contactPoint", {JObj(<<Member("telephone", JStr("+15550100"))>>)})}

\* texts that are not the serialisation of an object, declared with each type
RawDocuments ==
  {[type |-> t, schema |-> text] :
     t \in {"Article", "Product", "Organization", "Recipe"},
     text \in {"{", "null", "5", "[]"}}

\* the documents that follow or precede another document in a batch of two
PairedDocuments ==
  RawDocuments \cup
  {Declare("Article", JObj(<<Member("@type", JStr("Article"))>>)),
   Declare("Product", JObj(<<Member("@type", JStr("Product"))>>)),
   Declare("Organization", JObj(<<Member("@type", JStr("Organization"))>>))}

\* batches of one document, and batches of two
RelationBatches ==
  {<<d>> : d \in ArticleDocuments \cup ProductDocuments \cup OrganizationDocuments
                   \cup RawDocuments}
    \cup {<<d, e>> : d, e \in PairedDocuments}

\* the types the long batches declare in turn
TypeList ==
  <<"Article", "Product", "Organization", "WebSite", "Person", "Event",
    "BreadcrumbList", "FAQPage", "HowTo", "Review", "LocalBusiness", "Recipe">>

\* the numbers of documents of the long batches: around the limits 2 and 10
BatchLengths == {0, 1, 2, 3, 9, 10, 11, 12}

\* batches of n documents that declare k types in turn
CountBatches ==
  {[i \in 1..n |-> Declare(TypeList[((i - 1) % k) + 1],
                            JObj(<<Member("@type", JStr(TypeList[((i - 1) % k) + 1]))>>))] :
     n \in BatchLengths, k \in {1, 2, 11, 12}}

ValidateBatch ==
  returned = <<>> /\ \E schemas \in RelationBatches \cup CountBatches :
                       ValidateSchemasForSEOCall(schemas)

NextBatches == ValidateBatch

SpecBatches == Init /\ [][NextBatches]_vars

(***************************************************************************)
(* SpecApp: the App component.  handleGenerateSchema runs to its await,    *)
(* the request settles later, and the rest of the handler runs then; the   *)
(* user may cancel or generate again in between.  A request is numbered by *)
(* the order of its start, and so is its AbortController.                  *)
(***************************************************************************)
MaxRequests == 3

\* the URLs the form, the example button and the shortcut pass on
Urls == {"https://example.com/", "https://example.org/blog/post"}

\* what generateSchemaFromUrl gives the request: a text, or an error with a
\* message
Settlements ==
  {[ok |-> TRUE, text |-> t] :
     t \in {"[{\"type\":\"WebSite\",\"schema\":\"{}\"}]", "[]", "[null]", "not json",
            "[{\"type\":\"WebSite\"}]"}}
    \cup {[ok |-> FALSE, text |-> m] :
            m \in {"Invalid URL", "Failed to fetch", "no content received"}}

\* generateSchemaForUrl: the text is returned whatever the signal says; an
\* error is rethrown as a cancellation if the signal is aborted
generateSchemaForUrl(settlement, signal) ==
  IF settlement.ok THEN settlement
  ELSE IF signal.aborted THEN [ok |-> FALSE, text |-> "Operation was cancelled"]
  ELSE [ok |-> FALSE, text |-> "Failed to generate schema: " \o settlement.text]

\* controller.abort()
Abort(reqs, controller) == [reqs EXCEPT ![controller].aborted = TRUE]

\* if (abortControllerRef.current) abortControllerRef.current.abort()
AbortCurrent(reqs) ==
  IF App.abortControllerRef # 0 THEN Abort(reqs, App.abortControllerRef) ELSE reqs

\* handleGenerateSchema up to its await; the callers pass a URL that is not
\* empty
handleGenerateSchema(inputUrl) ==
  /\ requests' = Append(AbortCurrent(requests),
                    [url |-> inputUrl, aborted |-> FALSE, settled |-> FALSE,
                     cancelled |-> FALSE])
  /\ App' = [App EXCEPT !.abortControllerRef = Len(requests) + 1,
                        !.isCancelledRef = FALSE,
                        !.url = inputUrl,
                        !.isLoading = TRUE,
                        !.error = <<>>,
                        !.schemas = <<>>]

\* the message of the catch block for an error that is not a cancellation
ErrorMessage(errorMessage) ==
  IF \/ Includes(errorMessage, "CORS") \/ Includes(errorMessage, "proxy")
     \/ Includes(errorMessage, "Failed to fetch") \/ Includes(errorMessage, "cross-origin")
  THEN "Unable to access the webpage due to CORS restrictions. This website blocks cross-origin requests, which prevents our tool from analyzing its content. Try a different URL or use the example button."
  ELSE IF \/ Includes(errorMessage, "completely blocked")
          \/ Includes(errorMessage, "no content received")
  THEN "This website has very strict CORS policies that prevent any cross-origin access. Unfortunately, we cannot analyze this particular website. Please try a different URL or use the example button."
  ELSE "Failed to generate schema. The URL might be inaccessible or the content is not suitable for schema generation. Please check the console for more details."

\* parsedResult.every(item => item.schema && item.type) raises a TypeError on
\* an item that is null
EveryItemThrows(items) == \E i \in DOMAIN items : Nullish(items[i])
EveryItem(items) ==
  \A i \in DOMAIN items :
    Truthy(Get(items[i], "schema")) /\ Truthy(Get(items[i], "type"))

\* the types of the schemas setSchemas receives (their texts are reformatted
\* and are left out)
PrettySchemas(items) == [i \in DOMAIN items |-> ToStr(Get(items[i], "type"))]

\* the try block after the await, for a text: what it leaves in the state
AfterResult(r, parsed) ==
  IF App.isCancelledRef THEN App
  ELSE IF ~parsed.ok
  THEN [App EXCEPT !.error =
          <<[request |-> r,
             message |-> "Invalid response format received. Please try again."]>>]
  ELSE IF parsed.v.t = "array" /\ Len(parsed.v.e) > 0 /\ EveryItemThrows(parsed.v.e)
  THEN [App EXCEPT !.error =
          <<[request |-> r, message |-> ErrorMessage("TypeError")]>>]
  ELSE IF parsed.v.t = "array" /\ Len(parsed.v.e) > 0 /\ EveryItem(parsed.v.e)
  THEN [App EXCEPT !.schemas =
          <<[request |-> r, types |-> PrettySchemas(parsed.v.e)]>>]
  ELSE [App EXCEPT !.error =
          <<[request |-> r,
             message |-> "Response was in an unexpected format or no schemas were found. Please try again."]>>]

\* the catch block, for an error with the given message
AfterError(r, message) ==
  IF App.isCancelledRef \/ message = "Operation was cancelled" THEN App
  ELSE [App EXCEPT !.error = <<[request |-> r, message |-> ErrorMessage(message)]>>]

\* finally { setIsLoading(false); abortControllerRef.current = null; }
Finally(app) == [app EXCEPT !.isLoading = FALSE, !.abortControllerRef = 0]

\* the rest of handleGenerateSchema, run when request r settles
Continue(r, outcome) ==
  /\ App' = Finally(IF outcome.ok THEN AfterResult(r, JSONparse(outcome.text))
                    ELSE AfterError(r, outcome.text))
  /\ requests' = [requests EXCEPT ![r].settled = TRUE]

\* handleCancel; the request the user cancels is the one started last
handleCancel ==
  /\ App' = [App EXCEPT !.isCancelledRef = TRUE, !.isLoading = FALSE, !.error = <<>>]
  /\ requests' = [r \in DOMAIN requests |->
                    [AbortCurrent(requests)[r] EXCEPT
                       !.cancelled = @ \/ (r = Len(requests) /\ ~requests[r].settled)]]

\* the form, the example button and the shortcut start a request while
\* nothing is shown as loading
Generate ==
  /\ ~App.isLoading
  /\ Len(requests) < MaxRequests
  /\ \E inputUrl \in Urls : handleGenerateSchema(inputUrl)
  /\ UNCHANGED <<SCHEMA_REQUIREMENTS, heap, returned, displayed>>

\* the Stop button and the Escape key are there while loading is shown
Cancel ==
  /\ App.isLoading
  /\ handleCancel
  /\ UNCHANGED <<SCHEMA_REQUIREMENTS, heap, returned, displayed>>

\* a request that has not settled settles
Complete ==
  /\ \E r \in DOMAIN requests : \E settlement \in Settlements :
       /\ ~requests[r].settled
       /\ Continue(r, generateSchemaForUrl(settlement, requests[r]))
  /\ UNCHANGED <<SCHEMA_REQUIREMENTS, heap, returned, displayed>>

NextApp == Generate \/ Cancel \/ Complete

SpecApp == Init /\ [][NextApp]_vars

(***************************************************************************)
(* Reading the results.                                                    *)
(***************************************************************************)
\* the contents of a ValidationResult: its arrays read from the heap
Contents(h, result) ==
  [isValid |-> result.isValid, errors |-> h[result.errors],
   warnings |-> h[result.warnings], info |-> h[result.info], score |-> result.score]

\* the single-document validations made so far, each with its input, the
\* value its text parses to and the contents of its result
Validations ==
  UNION {{[input |-> returned[c].input[k],
           parsed |-> returned[c].parsed[k],
           result |-> Contents(heap, returned[c].results[k])] :
            k \in DOMAIN returned[c].results} : c \in DOMAIN returned}

\* the findings of a list that carry the given message
WithMessage(findings, message) ==
  {i \in DOMAIN findings : findings[i].message = message}

Clamp(n) == IF n < 0 THEN 0 ELSE IF n > 100 THEN 100 ELSE n
Deductions(result) ==
  20 * Len(result.errors) + 5 * Len(result.warnings) + Len(result.info)

(***************************************************************************)
(* The claims.                                                             *)
(***************************************************************************)
\* C1: the score of every result validateSchema returns is
\* max(0, min(100, 100 - 20*|errors| - 5*|warnings| - |info|)) over the lists
\* of that same result, hence an integer in 0..100.
C1_ScoreFormula ==
  \A v \in Validations :
    /\ v.result.score = Clamp(100 - Deductions(v.result))
    /\ v.result.score \in 0..100

\* a result whose deductions exceed 100, so that the clamp decides the score
C1_Witness ==
  \E v \in Validations : Deductions(v.result) > 100 /\ v.result.score = 0

\* C2: isValid is true if and only if the errors list is empty, whatever the
\* number of warnings and info findings.
C2_ValidIffNoErrors ==
  \A v \in Validations : v.result.isValid <=> (Len(v.result.errors) = 0)

\* a valid result that carries warnings and an info finding
C2_Witness ==
  \E v \in Validations :
    v.result.isValid /\ Len(v.result.warnings) > 0 /\ Len(v.result.info) > 0

\* C3: a text that is not parseable as JSON yields exactly one Error,
\* 'Invalid JSON syntax', no warning, no info, score 80 and isValid false.
C3_ParseFailure ==
  \A v \in Validations :
    ~v.parsed.ok =>
      /\ Len(v.result.errors) = 1
      /\ v.result.errors[1].type = "error"
      /\ v.result.errors[1].message = "Invalid JSON syntax"
      /\ v.result.warnings = <<>>
      /\ v.result.info = <<>>
      /\ v.result.score = 80
      /\ ~v.result.isValid

\* an unparseable text has been validated
C3_Witness ==
  \E v \in Validations : ~v.parsed.ok /\ v.input.schema = "{\"@type\":\"Article\",}"

\* the text is not the serialisation of a JSON object
Malformed(text) == ~JSONparse(text).ok \/ JSONparse(text).v.t # "object"

\* C4: validateSchema and validateSchemasForSEO never raise an exception to
\* the caller; every call returns a result, and a malformed input is reported
\* as a finding of the result.
C4_NeverRaises ==
  \A c \in DOMAIN returned :
    /\ ~returned[c].raised
    /\ Len(returned[c].results) = Len(returned[c].input)
    /\ \A k \in DOMAIN returned[c].input :
         Malformed(returned[c].input[k].schema) =>
           /\ Len(heap[returned[c].results[k].errors]) >= 1
           /\ returned[c].op = "validateSchemasForSEO" =>
                Len(heap[returned[c].batch.errors]) >= 1

\* a batch call has returned for a batch that holds the text null declared as
\* an Article and a document with a null list element
C4_Witness ==
  \E c \in DOMAIN returned :
    /\ returned[c].op = "validateSchemasForSEO"
    /\ ~returned[c].raised
    /\ \E k \in DOMAIN returned[c].input :
         returned[c].input[k] = [type |-> "Article", schema |-> "null"]
    /\ \E k \in DOMAIN returned[c].input : returned[c].input[k].type = "FAQPage"

\* C5: JSON parse failure is the only condition that aborts the pipeline: a
\* text that parses as JSON never gets the 'Invalid JSON syntax' Error.
C5_OnlyParseFailureAborts ==
  \A v \in Validations :
    v.parsed.ok => WithMessage(v.result.errors, "Invalid JSON syntax") = {}

\* C6: validation is deterministic: two validateSchema calls on the same
\* (type, text) pair return identical results (isValid, score and the findings
\* of errors, warnings and info in the same order).
C6_Deterministic ==
  \A v, w \in Validations : v.input = w.input => v.result = w.result

\* the same input has been validated by two calls, with findings in its lists
C6_Witness ==
  \E c, d \in DOMAIN returned :
    /\ c < d
    /\ returned[c].op = "validateSchema" /\ returned[d].op = "validateSchema"
    /\ returned[c].input = returned[d].input
    /\ Len(heap[returned[d].results[1].errors]) > 0
    /\ Len(heap[returned[d].results[1].warnings]) > 0

\* the contents of a batch report: its arrays read from the heap
BatchContents(h, batch) ==
  [errors |-> h[batch.errors], warnings |-> h[batch.warnings], info |-> h[batch.info],
   recommendations |-> batch.recommendations]

\* the contents of what a call returns, read from the heap the call leaves
Read(out) == Contents(out.heap, out.result)
ReadBatch(out) == BatchContents(out.heap, out.result)

\* every result the caller holds reads as the result of the same call made
\* alone in a fresh module, the batch report included
SameAsAlone ==
  /\ \A v \in Validations : v.result = Read(validateSchema(<<>>, v.input))
  /\ \A c \in DOMAIN returned :
       returned[c].op = "validateSchemasForSEO" =>
         BatchContents(heap, returned[c].batch)
           = ReadBatch(validateSchemasForSEO(<<>>, returned[c].input))

\* the rule table is the one the module was loaded with
TablesUnchanged == SCHEMA_REQUIREMENTS = SchemaRequirementsLiteral

\* a call leaves every array that exists before it as it is
ReturnedFrozen == \A a \in DOMAIN heap : a \in DOMAIN heap' /\ heap'[a] = heap[a]

\* C7: validation calls share no mutable state: in any sequence of
\* validateSchema, validateSchemas and validateSchemasForSEO calls each call
\* returns what it returns when run alone, the rule tables are unchanged, and
\* a result already returned is never modified by a later call.
C7_NoSharedState ==
  [](SameAsAlone /\ TablesUnchanged) /\ [][ReturnedFrozen]_vars

\* a document validated by a first call is validated again inside a later
\* batch of two documents whose findings are flattened into the report
C7_Witness ==
  \E c, d \in DOMAIN returned :
    /\ c < d
    /\ returned[c].op = "validateSchema"
    /\ returned[d].op = "validateSchemasForSEO"
    /\ Len(returned[d].input) = 2
    /\ returned[d].input[2] = returned[c].input[1]
    /\ Len(heap[returned[c].results[1].warnings]) > 0
    /\ Len(heap[returned[d].batch.errors]) > 1

\* the number of findings of a list that carry the given message and no path,
\* as the findings of the structural stage do
Count(findings, message) ==
  Cardinality({i \in WithMessage(findings, message) : "path" \notin DOMAIN findings[i]})

\* the validations whose text parses to a JSON value
Parsed == {v \in Validations : v.parsed.ok}

\* the validations whose text parses to a JSON value other than null
ParsedNonNull == {v \in Parsed : v.parsed.v # JNull}

\* the property is not among the members of the parsed value
Absent(doc, prop) == Get(doc, prop) = Undefined

KnownTypes == DOMAIN SchemaRequirementsLiteral

\* the value of @type as a table key
OwnType(doc) == ToStr(Get(doc, "@type"))

\* the paths of the findings whose message starts with the given prefix
PathsOf(findings, prefix) ==
  {findings[i].path : i \in {j \in DOMAIN findings :
                               StartsWith(findings[j].message, prefix)}}

\* the properties of a list, as a set
Listed(props) == {props[i] : i \in DOMAIN props}

\* the missing-property findings of the result stem from the given entry:
\* their paths are listed in it, and each listed property the document leaves
\* out has its finding
UsesEntry(v, entry) ==
  /\ PathsOf(v.result.errors, "Missing required property: ") \subseteq Listed(entry.required)
  /\ PathsOf(v.result.warnings, "Missing recommended property: ")
       \subseteq Listed(entry.recommended)
  /\ \A p \in Listed(entry.required) :
       Absent(v.parsed.v, p) => p \in PathsOf(v.result.errors, "Missing required property: ")
  /\ \A p \in Listed(entry.recommended) :
       Absent(v.parsed.v, p)
         => p \in PathsOf(v.result.warnings, "Missing recommended property: ")

\* no missing-property finding at all
UsesNoEntry(v) ==
  /\ PathsOf(v.result.errors, "Missing required property: ") = {}
  /\ PathsOf(v.result.warnings, "Missing recommended property: ") = {}

\* C9: the lookup uses the entry of the document's own @type whenever that
\* type is one of the 11 known types, the entry of the expected type when the
\* document's @type is absent or has no entry, and when neither has an entry
\* no missing-required or missing-recommended finding is produced.
C9_LookupPrecedence ==
  \A v \in ParsedNonNull :
    IF OwnType(v.parsed.v) \in KnownTypes
    THEN UsesEntry(v, SchemaRequirementsLiteral[OwnType(v.parsed.v)])
    ELSE IF v.input.type \in KnownTypes
    THEN UsesEntry(v, SchemaRequirementsLiteral[v.input.type])
    ELSE UsesNoEntry(v)

\* the validations for which the lookup of the code yields a table entry
Resolved ==
  {v \in ParsedNonNull :
     ResolveRequirements(Get(v.parsed.v, "@type"), v.input.type).kind = "entry"}

\* the entry the lookup of the code yields
ResolvedEntry(v) == ResolveRequirements(Get(v.parsed.v, "@type"), v.input.type).entry

\* the number of findings with the given message and path
CountAt(findings, message, path) ==
  Cardinality({i \in DOMAIN findings :
                 /\ findings[i].message = message
                 /\ "path" \in DOMAIN findings[i]
                 /\ findings[i].path = path})

\* C10 as stated: one Error with the property as path for each required
\* property missing from the document, one Warning for each recommended one,
\* and none for a listed property that is present in the document.
C10_MissingAsStated ==
  \A v \in Resolved :
    /\ \A p \in Listed(ResolvedEntry(v).required) :
         CountAt(v.result.errors, "Missing required property: " \o p, p)
           = IF Absent(v.parsed.v, p) THEN 1 ELSE 0
    /\ \A p \in Listed(ResolvedEntry(v).recommended) :
         CountAt(v.result.warnings, "Missing recommended property: " \o p, p)
           = IF Absent(v.parsed.v, p) THEN 1 ELSE 0

\* C10: for the resolved table entry the stage emits exactly one Error with
\* path = the property name for each required property that is absent from
\* the document or present with a falsy value (empty string, 0, false, null),
\* exactly one Warning of the same shape for each such recommended property,
\* and none for a listed property present with a truthy value.
C10_MissingOrFalsy ==
  \A v \in Resolved :
    /\ \A p \in Listed(ResolvedEntry(v).required) :
         CountAt(v.result.errors, "Missing required property: " \o p, p)
           = IF ~Truthy(Get(v.parsed.v, p)) THEN 1 ELSE 0
    /\ \A p \in Listed(ResolvedEntry(v).recommended) :
         CountAt(v.result.warnings, "Missing recommended property: " \o p, p)
           = IF ~Truthy(Get(v.parsed.v, p)) THEN 1 ELSE 0

\* a BreadcrumbList whose required itemListElement is left out, whose
\* recommended numberOfItems is 0 and whose name is filled in
C10_Witness ==
  \E v \in Resolved :
    /\ OwnType(v.parsed.v) = "BreadcrumbList"
    /\ Absent(v.parsed.v, "itemListElement")
    /\ Get(v.parsed.v, "numberOfItems") = JNum(0)
    /\ CountAt(v.result.errors, "Missing required property: itemListElement",
               "itemListElement") = 1
    /\ CountAt(v.result.warnings, "Missing recommended property: numberOfItems",
               "numberOfItems") = 1
\* the warnings of a result that report a type mismatch
Mismatches(v) ==
  {i \in DOMAIN v.result.warnings :
     StartsWith(v.result.warnings[i].message, "Schema type mismatch: ")}

\* the message of the mismatch warning for a validation
MismatchMessage(v) ==
  "Schema type mismatch: expected \"" \o v.input.type
    \o "\", got \"" \o ToStr(Get(v.parsed.v, "@type")) \o "\""

\* the missing-property findings of the result are those of the entry: one
\* per listed property that the document lacks or holds with a falsy value
ChecksRun(v, entry) ==
  /\ \A p \in Listed(entry.required) :
       CountAt(v.result.errors, "Missing required property: " \o p, p)
         = IF ~Truthy(Get(v.parsed.v, p)) THEN 1 ELSE 0
  /\ \A p \in Listed(entry.recommended) :
       CountAt(v.result.warnings, "Missing recommended property: " \o p, p)
         = IF ~Truthy(Get(v.parsed.v, p)) THEN 1 ELSE 0

OrganizationExample ==
  [type |-> "Organization",
   schema |-> "{\"@context\":\"https://schema.org\",\"@type\":\"Organization\",\"name\":\"Acme\"}"]

\* the messages of a list of findings, in order
Messages(findings) == [i \in DOMAIN findings |-> findings[i].message]

\* C12: validating type "Organization" with the document
\* {"@context":"https://schema.org","@type":"Organization","name":"Acme"}
\* yields no Errors, exactly 6 Warnings (missing @id, url, logo, description,
\* address, contactPoint), no Info, score 70 and isValid true.
C12_OrganizationExample ==
  \A v \in Validations :
    v.input = OrganizationExample =>
      /\ v.result.errors = <<>>
      /\ Messages(v.result.warnings)
           = <<"Missing @id property",
               "Missing recommended property: url",
               "Missing recommended property: logo",
               "Missing recommended property: description",
               "Missing recommended property: address",
               "Missing recommended property: contactPoint">>
      /\ \A i \in DOMAIN v.result.warnings : v.result.warnings[i].type = "warning"
      /\ v.result.info = <<>>
      /\ v.result.score = 70
      /\ v.result.isValid

\* the Organization example has been validated
C12_Witness ==
  \E v \in Validations :
    /\ v.input = OrganizationExample
    /\ v.parsed.ok
    /\ Len(v.result.warnings) = 6
\* the Article example: a document with @context only
ArticleExample == [type |-> "Article", schema |-> "{\"@context\":\"https://schema.org\"}"]

\* C13: validating expected type "Article" with the document
\* {"@context":"https://schema.org"} yields at least 2 Errors, covering the
\* missing @type and the missing headline, and isValid false.
C13_RequiredCompleteness ==
  \A v \in Validations :
    v.input = ArticleExample =>
      /\ Len(v.result.errors) >= 2
      /\ WithMessage(v.result.errors, "Missing @type property") # {}
      /\ CountAt(v.result.errors, "Missing required property: headline", "headline") = 1
      /\ \A i \in DOMAIN v.result.errors : v.result.errors[i].type = "error"
      /\ ~v.result.isValid

\* the Article example has been validated and its text parsed
C13_Witness ==
  \E v \in Validations :
    /\ v.input = ArticleExample
    /\ v.parsed.ok
    /\ Absent(v.parsed.v, "@type") /\ Absent(v.parsed.v, "headline")
    /\ ~v.result.isValid
\* the validations of a parsed document that declares itself an Article
Articles == {v \in ParsedNonNull : Get(v.parsed.v, "@type") = JStr("Article")}

\* s without its last n characters
DropLast(s, n) == SubSeq(s, 1, Len(s) - n)

\* the last n characters of s
Last(s, n) == SubSeq(s, Len(s) - n + 1, Len(s))

\* s reads YYYY-MM-DD
IsDay(s) ==
  /\ Len(s) = 10
  /\ IsDigits(SubSeq(s, 1, 4)) /\ Ch(s, 5) = "-"
  /\ IsDigits(SubSeq(s, 6, 7)) /\ Ch(s, 8) = "-"
  /\ IsDigits(SubSeq(s, 9, 10))

\* s reads YYYY-MM-DDTHH:mm:ss
IsDayTime(s) ==
  /\ Len(s) = 19
  /\ IsDay(SubSeq(s, 1, 10)) /\ Ch(s, 11) = "T"
  /\ IsDigits(SubSeq(s, 12, 13)) /\ Ch(s, 14) = ":"
  /\ IsDigits(SubSeq(s, 15, 16)) /\ Ch(s, 17) = ":"
  /\ IsDigits(SubSeq(s, 18, 19))

\* s reads YYYY-MM-DDTHH:mm:ss[.SSS]
IsDayTimeMillis(s) ==
  \/ IsDayTime(s)
  \/ Len(s) = 23 /\ IsDayTime(DropLast(s, 4))
       /\ Ch(s, 20) = "." /\ IsDigits(Last(s, 3))

\* the accepted forms: YYYY-MM-DD, or YYYY-MM-DDTHH:mm:ss[.SSS] with optional Z
IsoDateForm(s) ==
  \/ IsDay(s)
  \/ IsDayTimeMillis(s)
  \/ Len(s) > 1 /\ Last(s, 1) = "Z" /\ IsDayTimeMillis(DropLast(s, 1))

DateProperties == {"datePublished", "dateModified"}

\* the date-format Errors of a result for a property
DateErrors(v, prop) == Count(v.result.errors, "Invalid " \o prop \o " format")

\* C14 as stated: on an Article, datePublished (or dateModified) produces a
\* date-format Error if and only if it is present (neither left out nor
\* null) and is not of the form YYYY-MM-DD or YYYY-MM-DDTHH:mm:ss[.SSS] with
\* optional Z.
C14_DateAsStated ==
  \A v \in Articles : \A prop \in DateProperties :
    DateErrors(v, prop)
      = IF /\ ~Nullish(Get(v.parsed.v, prop))
           /\ ~(/\ Get(v.parsed.v, prop).t = "string"
                /\ IsoDateForm(Get(v.parsed.v, prop).s))
        THEN 1 ELSE 0

\* C14: on a document whose @type is "Article", datePublished (or
\* dateModified) produces exactly one date-format Error if and only if its
\* value is truthy and the string it coerces to is not of the form YYYY-MM-DD
\* or YYYY-MM-DDTHH:mm:ss[.SSS] with optional Z; an absent or falsy value
\* (empty string, 0, null) gives none.  "01/15/2024" gives an Error,
\* "2024-01-15" and "2024-01-15T14:30:00Z" give none.
C14_DateStrictness ==
  \A v \in Articles : \A prop \in DateProperties :
    /\ DateErrors(v, prop)
         = IF /\ Truthy(Get(v.parsed.v, prop))
              /\ ~IsoDateForm(ToStr(Get(v.parsed.v, prop)))
           THEN 1 ELSE 0
    /\ Get(v.parsed.v, prop) = JStr("01/15/2024") => DateErrors(v, prop) = 1
    /\ Get(v.parsed.v, prop) \in {JStr("2024-01-15"), JStr("2024-01-15T14:30:00Z")}
         => DateErrors(v, prop) = 0

\* an Article with datePublished "01/15/2024" and a well-formed dateModified
\* has been validated: one date-format Error, for datePublished
C14_Witness ==
  \E v \in Articles :
    /\ Get(v.parsed.v, "datePublished") = JStr("01/15/2024")
    /\ Get(v.parsed.v, "dateModified") = JStr("2024-01-16")
    /\ DateErrors(v, "datePublished") = 1
    /\ DateErrors(v, "dateModified") = 0
\* the Info findings of a result that report an identical name and headline
Identical(v) == WithMessage(v.result.info, "Name and headline are identical")

\* C15: a document whose name and headline are both present (non-empty) and
\* exactly equal gets exactly one Info finding, 'Name and headline are
\* identical'; a document whose name and headline differ or where either is
\* absent gets none; a single-document result never holds more than one Info
\* finding.
C15_DuplicateDetection ==
  \A v \in ParsedNonNull :
    /\ Cardinality(Identical(v))
         = IF /\ Truthy(Get(v.parsed.v, "name"))
              /\ Truthy(Get(v.parsed.v, "headline"))
              /\ Get(v.parsed.v, "name") = Get(v.parsed.v, "headline")
           THEN 1 ELSE 0
    /\ Len(v.result.info) <= 1
\* the validateSchemasForSEO calls made so far, each with its batch, the
\* contents of its report and the contents of its per-document results
BatchValidations ==
  {[input |-> returned[c].input,
    report |-> BatchContents(heap, returned[c].batch),
    results |-> [k \in DOMAIN returned[c].results |->
                   Contents(heap, returned[c].results[k])]] :
     c \in {d \in DOMAIN returned : returned[d].op = "validateSchemasForSEO"}}

\* the declared types of a batch, as a set
Declared(batch) == {batch[i].type : i \in DOMAIN batch}

\* the fixed list of conflicting pairs
StatedPairs ==
  {<<"Recipe", "HowTo">>, <<"Product", "Recipe">>, <<"Event", "Article">>,
   <<"FAQPage", "Article">>, <<"Review", "Article">>}

\* the message that names both types of a pair
ConflictMessage(pair) ==
  "Potential conflict between " \o pair[1] \o " and " \o pair[2] \o " schemas"

\* the warnings of a report that announce a conflict
Conflicts(report) ==
  {i \in DOMAIN report.warnings :
     StartsWith(report.warnings[i].message, "Potential conflict between ")}

\* C16: for every batch passed to validateSchemasForSEO and every pair of the
\* fixed list, the report holds exactly one conflict Warning naming both
\* types if both occur among the declared types of the batch, however many
\* documents declare them, and none for that pair otherwise; a batch with one
\* Article and one FAQPage document gets the FAQPage/Article Warning.
C16_ConflictRule ==
  \A b \in BatchValidations :
    /\ \A pair \in StatedPairs :
         Cardinality(WithMessage(b.report.warnings, ConflictMessage(pair)))
           = IF {pair[1], pair[2]} \subseteq Declared(b.input) THEN 1 ELSE 0
    /\ Cardinality(Conflicts(b.report))
         = Cardinality({pair \in StatedPairs : {pair[1], pair[2]} \subseteq Declared(b.input)})
    /\ \A i \in Conflicts(b.report) : b.report.warnings[i].type = "warning"

\* a batch of two Article documents and one FAQPage document has its single
\* FAQPage/Article Warning
C16_Witness ==
  \E b \in BatchValidations :
    /\ Len(b.input) = 3
    /\ Cardinality({i \in DOMAIN b.input : b.input[i].type = "Article"}) = 2
    /\ Cardinality({i \in DOMAIN b.input : b.input[i].type = "FAQPage"}) = 1
    /\ Cardinality(Conflicts(b.report)) = 1
    /\ WithMessage(b.report.warnings, ConflictMessage(<<"FAQPage", "Article">>)) # {}
\* the concatenation of a sequence of sequences
RECURSIVE Flatten(_)
Flatten(seqs) == IF seqs = <<>> THEN <<>> ELSE Head(seqs) \o Flatten(Tail(seqs))

\* the results of validateSchema on each document of a batch, each call made
\* alone, in input order
PerDocument(batch) == [k \in DOMAIN batch |-> Read(validateSchema(<<>>, batch[k]))]

\* the findings of the relationship layer for a batch
RelationshipFindings(batch) == validateSchemaRelationships(batch, NoFindings)

\* C17: the report of validateSchemasForSEO is the flattening of the
\* per-document results followed by the relationship findings: its errors
\* are exactly the concatenation, in input order, of each document's
\* validateSchema errors (the relationship layer adds no Error), and its
\* warnings and info are the per-document warnings and info in input order
\* followed by the relationship warnings and info.
C17_Flattening ==
  \A b \in BatchValidations :
    /\ b.results = PerDocument(b.input)
    /\ RelationshipFindings(b.input).errors = <<>>
    /\ b.report.errors = Flatten([k \in DOMAIN b.results |-> b.results[k].errors])
    /\ b.report.warnings
         = Flatten([k \in DOMAIN b.results |-> b.results[k].warnings])
             \o RelationshipFindings(b.input).warnings
    /\ b.report.info
         = Flatten([k \in DOMAIN b.results |-> b.results[k].info])
             \o RelationshipFindings(b.input).info

\* a batch of two documents that both have errors and warnings, with a
\* relationship Warning and a relationship Info after them
C17_Witness ==
  \E b \in BatchValidations :
    /\ Len(b.input) = 2
    /\ \A k \in 1..2 : Len(b.results[k].errors) > 0 /\ Len(b.results[k].warnings) > 0
    /\ b.results[1].errors # b.results[2].errors
    /\ RelationshipFindings(b.input).warnings # <<>>
    /\ RelationshipFindings(b.input).info # <<>>
    /\ Len(b.report.errors) = Len(b.results[1].errors) + Len(b.results[2].errors)
\* n of a noun, with the plural 's' exactly when n is not 1
Plural(n, noun) == ToString(n) \o " " \o noun \o (IF n = 1 THEN "" ELSE "s")

\* the three statuses, by the findings of the result
StatusOf(validation) ==
  IF validation.errors # <<>> THEN "invalid"
  ELSE IF validation.warnings # <<>> THEN "valid-with-warnings"
  ELSE "valid"

\* C18: the display helpers classify every result into exactly one of three
\* statuses and agree with each other: invalid (red, cross icon, summary
\* '<E> error(s) and <W> warning(s) found.') iff errors is non-empty;
\* valid-with-warnings (yellow, warning icon, summary '<W> warning(s) found.')
\* iff errors is empty and warnings is non-empty; valid (green, check icon)
\* iff both are empty; in the summary each noun takes a plural 's' exactly
\* when its count is not 1.
C18_DisplayHelpers ==
  \A i \in DOMAIN displayed :
    LET d == displayed[i]
        E == Len(displayed[i].validation.errors)
        W == Len(displayed[i].validation.warnings)
    IN CASE StatusOf(d.validation) = "invalid" ->
              /\ d.color = "text-red-600" /\ d.statusColor = "text-red-600"
              /\ d.icon = "cross" /\ d.statusIcon.element = "XCircleIcon"
              /\ d.statusIcon.className = "w-5 h-5 text-red-600"
              /\ d.statusText = "Invalid"
              /\ d.summary = Plural(E, "error") \o " and " \o Plural(W, "warning")
                                \o " found."
         [] StatusOf(d.validation) = "valid-with-warnings" ->
              /\ d.color = "text-yellow-600" /\ d.statusColor = "text-yellow-600"
              /\ d.icon = "warning" /\ d.statusIcon.element = "ExclamationTriangleIcon"
              /\ d.statusIcon.className = "w-5 h-5 text-yellow-600"
              /\ d.statusText = "Valid with warnings"
              /\ d.summary = Plural(W, "warning") \o " found."
         [] OTHER ->
              /\ d.color = "text-green-600" /\ d.statusColor = "text-green-600"
              /\ d.icon = "check" /\ d.statusIcon.element = "CheckCircleIcon"
              /\ d.statusIcon.className = "w-5 h-5 text-green-600"
              /\ d.statusText = "Valid"
              /\ d.summary = "Perfect! All validations passed."

\* an invalid result with one error and no warning has been shown
C18_Witness ==
  \E i \in DOMAIN displayed :
    /\ Len(displayed[i].validation.errors) = 1
    /\ Len(displayed[i].validation.warnings) = 0
    /\ displayed[i].summary = "1 error and 0 warnings found."
    /\ displayed[i].icon = "cross"

\* a valid result with a single warning has been shown
C18_WitnessSingular ==
  \E i \in DOMAIN displayed :
    /\ displayed[i].validation.errors = <<>>
    /\ Len(displayed[i].validation.warnings) = 1
    /\ displayed[i].summary = "1 warning found."

\* a result without errors and warnings has been shown
C18_WitnessValid ==
  \E i \in DOMAIN displayed :
    /\ displayed[i].validation.errors = <<>>
    /\ displayed[i].validation.warnings = <<>>
    /\ displayed[i].icon = "check"
\* the validations whose text parses to a JSON object
ParsedObjects == {v \in Parsed : v.parsed.v.t = "object"}

\* the top-level properties of a document whose value is a string that is
\* empty or holds white space only
EmptyStrings(doc) ==
  {doc.m[i].k : i \in {j \in DOMAIN doc.m :
                          /\ doc.m[j].v.t = "string"
                          /\ \A c \in 1..Len(doc.m[j].v.s) :
                               SubSeq(doc.m[j].v.s, c, c) = " "}}

\* C19: every top-level string-valued property of a parsed document that is
\* empty or whitespace-only produces exactly one Warning 'Empty value for
\* property: <key>' with path = the key, in addition to any other findings
\* for that property; in particular an empty-string name yields the Warning
\* 'Empty value for property: name'.
C19_EmptyValues ==
  \A v \in ParsedObjects :
    \A key \in EmptyStrings(v.parsed.v) :
      CountAt(v.result.warnings, "Empty value for property: " \o key, key) = 1
\* the resolved type of a validation: the document's @type, or the expected
\* type when the document has no @type
ResolvedType(v) ==
  IF Absent(v.parsed.v, "@type") THEN JStr(v.input.type) ELSE Get(v.parsed.v, "@type")

\* the types that have specialized checks
Specializations ==
  {"Article", "Product", "Organization", "Event", "BreadcrumbList", "FAQPage",
   "HowTo", "Review", "LocalBusiness"}

\* the number of date-format Errors the specialized check of a date property
\* gives for its value
ExpectedDateErrors(v, prop) ==
  IF /\ Truthy(Get(v.parsed.v, prop))
     /\ ~IsoDateForm(ToStr(Get(v.parsed.v, prop)))
  THEN 1 ELSE 0

\* C20: the per-type specialized checks are dispatched by the resolved type
\* (the document's @type, or the expected type when the document has no
\* @type): a document resolved to Article receives the date checks of
\* datePublished and dateModified, one resolved to Event those of startDate,
\* and a type outside the known specializations receives none.
C20_DispatchByResolvedType ==
  \A v \in ParsedObjects :
    /\ ResolvedType(v) = JStr("Article") =>
         \A prop \in DateProperties : DateErrors(v, prop) = ExpectedDateErrors(v, prop)
    /\ ResolvedType(v) = JStr("Event") =>
         DateErrors(v, "startDate") = ExpectedDateErrors(v, "startDate")
    /\ ResolvedType(v) \notin {JStr(t) : t \in Specializations} =>
         \A prop \in DateProperties \cup {"startDate"} : DateErrors(v, prop) = 0

\* the numbers of the two headline-length Warnings of a validation
ArticleHeadlineWarnings(v) == Count(v.result.warnings, "Headline is too long")
QualityHeadlineWarnings(v) ==
  Count(v.result.warnings, "Headline is too long for optimal SEO")

\* the document's headline is a string of more than 110 characters
LongHeadline(doc) ==
  Get(doc, "headline").t = "string" /\ Len(Get(doc, "headline").s) > 110

\* C21: for an Article whose headline is longer than 110 characters the
\* headline-length Warning fires twice, once from the Article specialization
\* and once from the content-quality stage; for every input the two Warnings
\* are either both present or both absent.
C21_HeadlineTwice ==
  \A v \in ParsedObjects :
    /\ ArticleHeadlineWarnings(v) = QualityHeadlineWarnings(v)
    /\ ArticleHeadlineWarnings(v) \in {0, 1}
    /\ (ResolvedType(v) = JStr("Article") /\ LongHeadline(v.parsed.v)) =>
         ArticleHeadlineWarnings(v) = 1

\* the validations of documents that carry an aggregateRating object
Rated == {v \in ParsedObjects : Get(v.parsed.v, "aggregateRating").t = "object"}

\* the number of Warnings a validation gives for one of the two ratings
RatingValueWarnings(v) ==
  CountAt(v.result.warnings, "Rating value outside typical 1-5 range",
          "aggregateRating.ratingValue")
BestRatingWarnings(v) ==
  CountAt(v.result.warnings, "Best rating is not 5", "aggregateRating.bestRating")

\* C22: in the datatype stage, for a document with aggregateRating, a Warning
\* is emitted whenever ratingValue is present and outside the range 1..5
\* (including 0 and negative values), and a Warning is emitted whenever
\* bestRating is present and different from 5 (including 0); no such Warning
\* is emitted for ratingValue within 1..5 or bestRating equal to 5.
C22_RatingRange ==
  \A v \in Rated :
    LET ratingValue == Get(Get(v.parsed.v, "aggregateRating"), "ratingValue")
        bestRating == Get(Get(v.parsed.v, "aggregateRating"), "bestRating")
    IN /\ ratingValue.t = "number" =>
            RatingValueWarnings(v) =
              (IF ratingValue.n < 1 \/ ratingValue.n > 5 THEN 1 ELSE 0)
       /\ bestRating.t = "number" =>
            BestRatingWarnings(v) = (IF bestRating.n # 5 THEN 1 ELSE 0)
       /\ ratingValue = Undefined => RatingValueWarnings(v) = 0
       /\ bestRating = Undefined => BestRatingWarnings(v) = 0

\* the validations of documents that declare themselves a Product
Products == {v \in ParsedObjects : Get(v.parsed.v, "@type") = JStr("Product")}

\* an offer carries a price
HasPrice(offer) == offer.t = "object" /\ ~Absent(offer, "price")

\* the offers of a document carry a price: the single offer does, or the list
\* has offers and every one of them does
OffersCarryPrice(offers) ==
  IF offers.t = "array"
  THEN offers.e # <<>> /\ \A i \in DOMAIN offers.e : HasPrice(offers.e[i])
  ELSE HasPrice(offers)

\* C23: for a Product document the Warning 'Product offers should include
\* price' is emitted exactly when offers is present and carries no price: a
\* Product whose offers is a single offer object with a price, or an array
\* of offers each of which has a price, does not receive this Warning.
C23_OffersPrice ==
  \A v \in Products :
    LET offers == Get(v.parsed.v, "offers")
    IN Count(v.result.warnings, "Product offers should include price") =
         (IF offers # Undefined /\ ~OffersCarryPrice(offers) THEN 1 ELSE 0)

\* the 'Non-standard @context value' Warnings of a validation: those of the
\* structural check carry no path, those of the datatype stage the path
ContextWarnings(v) ==
  Cardinality(WithMessage(v.result.warnings, "Non-standard @context value"))
DataTypeContextWarnings(v) ==
  CountAt(v.result.warnings, "Non-standard @context value", "@context")

\* C24: a present @context that matches http(s)://schema.org with optional
\* trailing slash gets no Warning from the datatype stage, so that
\* "http://schema.org" and "https://schema.org/" get exactly one
\* 'Non-standard @context value' Warning, from the structural check; a
\* present @context that does not match the pattern gets exactly two such
\* Warnings, and exactly "https://schema.org" gets none.
C24_ContextChecks ==
  \A v \in ParsedObjects :
    LET context == Get(v.parsed.v, "@context")
    IN /\ context = JStr("https://schema.org") => ContextWarnings(v) = 0
       /\ (context.t = "string" /\ PatternSchemaContext(context.s)) =>
            DataTypeContextWarnings(v) = 0
       /\ context \in {JStr("http://schema.org"), JStr("https://schema.org/")} =>
            ContextWarnings(v) = 1
       /\ (context.t = "string" /\ ~PatternSchemaContext(context.s)) =>
            /\ ContextWarnings(v) = 2
            /\ DataTypeContextWarnings(v) = 1

\* the validations of documents whose description is a string
Described == {v \in ParsedObjects : Get(v.parsed.v, "description").t = "string"}

\* the Warnings the content-quality stage emits for the document of a
\* validation
QualityWarnings(v) ==
  validateContentQuality(v.parsed.v, v.input.type, NoFindings).warnings

\* the three length Warnings among the given Warnings, in the order too
\* short, may be too short, too long
LengthWarnings(warnings) ==
  <<Count(warnings, "Description is too short"),
    Count(warnings, "Description may be too short"),
    Count(warnings, "Description is too long")>>

\* the length Warnings the limits 50, 20 and 160 give a description of length L
LengthRule(L) ==
  <<IF L < 50 THEN 1 ELSE 0, IF L < 20 THEN 1 ELSE 0, IF L > 160 THEN 1 ELSE 0>>

TooMany(report) ==
  Count(report.warnings, "High number of schema types detected")
TooFew(report) == Count(report.info, "Consider adding more schema types")

\* C26: the batch document-count heuristic is computed over the number of
\* distinct declared types in the batch: a 'too many' Warning is emitted iff
\* that number is greater than 10, a 'consider adding more' Info iff it is
\* less than 2, and neither for 2..10; so a batch of 11 documents that
\* declare only 2 distinct types gets no 'too many' Warning, and a batch of 2
\* documents of the same type gets the Info.
C26_DistinctTypeCount ==
  \A b \in BatchValidations :
    /\ TooMany(b.report) = (IF Cardinality(Declared(b.input)) > 10 THEN 1 ELSE 0)
    /\ TooFew(b.report) = (IF Cardinality(Declared(b.input)) < 2 THEN 1 ELSE 0)

\* the parsed document has the property: a value that is not null carries a
\* truthy value for it
Has(p, key) == ~Nullish(p) /\ Truthy(Get(p, key))

\* what the three relationship checks call a lacking document
ArticleLacks(p) ==
  \/ ~Has(p, "headline")
  \/ ~Has(p, "description")
  \/ ~Has(p, "author") /\ ~Has(p, "publisher")
  \/ ~Has(p, "datePublished") /\ ~Has(p, "dateModified")
ProductLacks(p) == ~Has(p, "offers") /\ ~Has(p, "price") /\ ~Has(p, "availability")
OrganizationLacks(p) == ~Has(p, "address") \/ ~Has(p, "contactPoint")

\* the documents of a batch that are declared with the type, parse, and lack
\* what the check of the type asks for
Lacking(batch, type) ==
  {i \in DOMAIN batch :
     /\ batch[i].type = type
     /\ JSONparse(batch[i].schema).ok
     /\ CASE type = "Article" -> ArticleLacks(JSONparse(batch[i].schema).v)
          [] type = "Product" -> ProductLacks(JSONparse(batch[i].schema).v)
          [] OTHER -> OrganizationLacks(JSONparse(batch[i].schema).v)}

\* the message of the relationship check of a type
LackMessage(type) ==
  CASE type = "Article" -> "Article schema may be missing essential properties"
    [] type = "Product" -> "Product schema may be missing commercial properties"
    [] OTHER -> "Organization schema may be missing contact information"

\* C27: in the batch relationship check each parseable document declared as
\* Article gets exactly one 'missing essential properties' Warning iff it
\* lacks headline, or description, or both author and publisher, or both
\* datePublished and dateModified; each parseable Product gets one Warning
\* iff it lacks all of offers, price and availability; each parseable
\* Organization gets one Warning iff it lacks address or contactPoint; an
\* unparseable document contributes no relationship finding and does not
\* stop the checks of the documents after it.
C27_RelationshipChecks ==
  \A b \in BatchValidations :
    \A type \in {"Article", "Product", "Organization"} :
      Count(b.report.warnings, LackMessage(type)) = Cardinality(Lacking(b.input, type))

\* the result shown is reported as perfect by one of the helpers
ShownAsPerfect(shown) ==
  \/ shown.summary = "Perfect! All validations passed."
  \/ shown.color = "text-green-600"
  \/ shown.icon = "check"
  \/ shown.statusText = "Valid"

\* C28: for every single-document result the 'perfect' outcome is consistent
\* with the score: getValidationSummary returns 'Perfect! All validations
\* passed.' (and the status is valid/green) only for results whose score is
\* 100, i.e. a result that carries any finding, including an Info finding,
\* is never reported as perfect.
C28_PerfectIsFullScore ==
  \A k \in DOMAIN displayed :
    ShownAsPerfect(displayed[k]) =>
      /\ displayed[k].validation.score = 100
      /\ displayed[k].validation.errors = <<>>
      /\ displayed[k].validation.warnings = <<>>
      /\ displayed[k].validation.info = <<>>

\* the request started last, 0 if there is none
Latest == Len(requests)

====
